---------------------------- MODULE Spec2Model ----------------------------
(***************************************************************************)
(* Verification model of erg-vanity-gpu.                                   *)
(*                                                                         *)
(* Several specifications share this module:                               *)
(*   Spec         the multi-device orchestrator MultiGpuRunner::run        *)
(*                (crates/erg-vanity-cli/src/main.rs): worker threads, the *)
(*                shared atomics counter / stop / total_checked, the mpsc  *)
(*                channel, the deadline thread and the coordinator loop;   *)
(*   FairSpec     Spec with the fairness the scheduler gives the threads;  *)
(*   PipeSpec     one VanityPipeline driven batch by batch, the device     *)
(*                work-items of a batch interleaved step by step;          *)
(*   SortSpec     sort_results_deterministically and the tail of run_batch *)
(*                applied to arbitrary lists of records;                   *)
(*   VerifySpec   the host verification of run_batch (verify_hit) applied  *)
(*                to arbitrary device records;                             *)
(*   ValidateSpec validate_pattern applied to arbitrary patterns;          *)
(*   MainSpec     main: argument checks, device selection, exit code;      *)
(*   CpuSpec      the CPU search (erg-vanity-cpu: search, search_with_salt)*)
(*                with another thread setting the stop flag;               *)
(*   Bip32Spec    BIP32 derivation (erg-vanity-bip: from_seed,             *)
(*                 derive_child, derive_hardened, derive_path) and         *)
(*                 derive_ergo_key;                                        *)
(*   CounterSpec  PipeSpec started from a pipeline that may be one batch   *)
(*                 short of the wrap of its counter;                       *)
(*   Bip39Spec    BIP39 mnemonics and seeds;                               *)
(*   Base58Spec   Base58 encoding and decoding of addresses;               *)
(*   DebugSpec    the formatting of secrets for debug output;              *)
(*   ArithSpec    the field and scalar arithmetic of secp256k1             *)
(*                 (FieldElement, Scalar) on scaled-down limbs.            *)
(***************************************************************************)
EXTENDS Integers, Sequences, FiniteSets, TLC

(***************************************************************************)
(* Bounds of the model.                                                    *)
(***************************************************************************)
\* number of devices (one worker thread each)
NumDevices == 2
\* batches one worker may start before the model stops letting it continue
MaxBatches == 2
\* the same under FairSpec, where liveness is checked
MaxFairBatches == 1
\* width of the shared counter in bits (the program uses 64)
CounterBits == 3
\* work-items per batch (cfg.batch_size; the program uses 2^18)
BatchSize == 2
\* address indices per seed (cfg.num_indices, 1..100 in the program)
NumIndices == 2
\* capacity of the device hit buffer (the program uses 1024)
MAX_HITS == 2
\* largest max_results tried
MaxResultsBound == 2
\* longest list handed to sort_results_deterministically
MaxLen == 3
\* batches run on the single pipeline of PipeSpec
MaxPipeBatches == 3

\* attempt ids reserved per window by the CPU search (the program uses 1000)
CpuBatchSize == 2
\* windows one CPU search may reserve before the model stops letting it
MaxCpuBatches == 2
\* width of a private key or of IL in bits (the program uses 256)
KeyBits == 3
\* width of a chain code in bits (the program uses 256)
ChainCodeBits == 1
\* width of a child index in bits (the program uses 32)
IndexBits == 3
\* longest index list handed to derive_path
MaxPathLen == 3
\* number of patterns in the pattern bank
NumPatterns == 2
\* longest pattern validate_pattern accepts (the program uses 32)
MAX_PATTERN_LEN == 3

Devices == 0 .. (NumDevices - 1)
Modulus == 2 ^ CounterBits
Counters == 0 .. (Modulus - 1)
WorkItems == 0 .. (BatchSize - 1)
Indices == 0 .. (NumIndices - 1)
Patterns == 0 .. (NumPatterns - 1)
Salts == {0, 1}

\* Option<T>: None is the empty tuple, Some(v) a non-empty one.
None == << >>

Min(a, b) == IF a < b THEN a ELSE b

RECURSIVE SumSeq(_)
SumSeq(s) == IF s = << >> THEN 0 ELSE Head(s) + SumSeq(Tail(s))

RECURSIVE SumOver(_, _)
SumOver(f, S) ==
  IF S = {} THEN 0
  ELSE LET x == CHOOSE y \in S : TRUE IN f[x] + SumOver(f, S \ {x})

(***************************************************************************)
(* Candidate derivation, abstracted.                                       *)
(*                                                                         *)
(* entropy = Blake2b-256(salt || counter_le): a function of (salt,counter) *)
(* that is injective up to hash collisions; modelled as the pair.          *)
(***************************************************************************)
Entropy(s, c) == << s, c >>

\* Text is a sequence of one-character strings.
UpperLetters ==
  << "A", "B", "C", "D", "E", "F", "G", "H", "I", "J", "K", "L", "M",
     "N", "O", "P", "Q", "R", "S", "T", "U", "V", "W", "X", "Y", "Z" >>
LowerLetters ==
  << "a", "b", "c", "d", "e", "f", "g", "h", "i", "j", "k", "l", "m",
     "n", "o", "p", "q", "r", "s", "t", "u", "v", "w", "x", "y", "z" >>

\* char::to_ascii_lowercase: A-Z map to a-z, everything else to itself.
to_ascii_lowercase(ch) ==
  IF \E k \in 1 .. 26 : UpperLetters[k] = ch
    THEN LowerLetters[CHOOSE k \in 1 .. 26 : UpperLetters[k] = ch]
    ELSE ch

\* char::to_ascii_uppercase
to_ascii_uppercase(ch) ==
  IF \E k \in 1 .. 26 : LowerLetters[k] = ch
    THEN UpperLetters[CHOOSE k \in 1 .. 26 : LowerLetters[k] = ch]
    ELSE ch

\* str::eq_ignore_ascii_case
eq_ignore_ascii_case(a, b) ==
  /\ Len(a) = Len(b)
  /\ \A k \in 1 .. Len(a) : to_ascii_lowercase(a[k]) = to_ascii_lowercase(b[k])

\* str::starts_with
starts_with(address, pattern) ==
  /\ Len(pattern) <= Len(address)
  /\ SubSeq(address, 1, Len(pattern)) = pattern

\* lines 285-293 of verify_hit: the prefix test, ASCII case-insensitive iff
\* ignore_case; address.get(..pattern.len()) is None for a short address.
PrefixMatches(address, pattern, ignore_case) ==
  IF ignore_case
    THEN IF Len(pattern) <= Len(address)
           THEN eq_ignore_ascii_case(SubSeq(address, 1, Len(pattern)), pattern)
           ELSE FALSE
    ELSE starts_with(address, pattern)

\* cfg.ignore_case and the pattern list of the pipelines of Spec and
\* PipeSpec: a case-sensitive search for "9e", "9eA", ... (NumPatterns
\* patterns, each a prefix of the next).
CfgIgnoreCase == FALSE
CfgPatterns ==
  [ k \in 1 .. NumPatterns |->
      SubSeq(<< "9", "e", "A", "x" >>, 1, IF k < 3 THEN k + 1 ELSE 4) ]

\* entropy_to_mnemonic: a function of the entropy alone.
entropy_to_mnemonic(e) == << "mnemonic", e >>

\* from_seed / derive_ergo_key / Scalar::from_bytes can fail (a key outside
\* [1, n)); the entropies of salt 2 stand for such seeds.
DerivationFails(e, i) == e[1] = 2

\* The chain entropy -> mnemonic -> seed -> BIP32/44 key at
\* m/44'/429'/0'/0/i -> P2PK address is a deterministic function of
\* (entropy, i); it is represented by a fixed table.  Salt 0 gives addresses
\* no pattern matches; salt 1 has counters whose address at index 0 starts
\* with "9ea", counters whose addresses at every index start with "9eA",
\* and counters that match nothing.
DerivedAddress(e, i) ==
  LET r == e[2] % 8 IN
    IF e[1] = 1 /\ r \in {2, 3} THEN << "9", "e", "A", "x" >>
    ELSE IF e[1] = 1 /\ r \in {1, 4, 5} /\ i = 0 THEN << "9", "e", "a", "x" >>
    ELSE << "9", "f", "B", "x" >>

\* Does candidate (salt s, counter c, address index i) match pattern p of
\* the configured list?
AddressMatches(s, c, i, p) ==
  PrefixMatches(DerivedAddress(Entropy(s, c), i), CfgPatterns[p + 1],
                CfgIgnoreCase)

(***************************************************************************)
(* sort_results_deterministically                                          *)
(***************************************************************************)
\* Variant: the comparator without the work_item_id tie-breaker.
cmp_no_tiebreak(a, b) ==
  IF a.address_index # b.address_index
    THEN (IF a.address_index < b.address_index THEN "Less" ELSE "Greater")
  ELSE IF a.pattern_index # b.pattern_index
    THEN (IF a.pattern_index < b.pattern_index THEN "Less" ELSE "Greater")
  ELSE "Equal"

\* Ordering::then_with chain of the comparator closure
cmp_results(a, b) ==
  IF a.address_index # b.address_index
    THEN (IF a.address_index < b.address_index THEN "Less" ELSE "Greater")
  ELSE IF a.pattern_index # b.pattern_index
    THEN (IF a.pattern_index < b.pattern_index THEN "Less" ELSE "Greater")
  ELSE IF a.work_item_id # b.work_item_id
    THEN (IF a.work_item_id < b.work_item_id THEN "Less" ELSE "Greater")
  ELSE "Equal"

\* slice::sort_by is a stable sort: an element is placed after every element
\* that does not compare Greater than it.
RECURSIVE InsertStable(_, _)
InsertStable(r, s) ==
  IF s = << >> THEN << r >>
  ELSE IF cmp_results(Head(s), r) = "Greater" THEN << r >> \o s
  ELSE << Head(s) >> \o InsertStable(r, Tail(s))

RECURSIVE SortFrom(_, _)
SortFrom(acc, rest) ==
  IF rest = << >> THEN acc
  ELSE SortFrom(InsertStable(Head(rest), acc), Tail(rest))

\* Variant: the results are returned in buffer order.
sort_results_skipped(results) == results

sort_results_deterministically(results) == SortFrom(<< >>, results)

(***************************************************************************)
(* Device kernel vanity_search, summarised.                                *)
(***************************************************************************)
\* The hit record a work-item writes for candidate (gid, i, p).
GpuHit(s, counter_start, gid, i, p) ==
  [ entropy       |-> Entropy(s, (counter_start + gid) % Modulus),
    work_item_id  |-> gid,
    address_index |-> i,
    pattern_index |-> p ]

\* The candidates of one work-item in the order of its loops
\* (for i in 0..num_indices, for each pattern p).
RECURSIVE CandidatesFrom(_)
CandidatesFrom(k) ==
  IF k >= NumIndices * NumPatterns THEN << >>
  ELSE << << k \div NumPatterns, k % NumPatterns >> >> \o CandidatesFrom(k + 1)

RECURSIVE FilterHits(_, _, _, _)
FilterHits(s, counter_start, gid, cands) ==
  IF cands = << >> THEN << >>
  ELSE LET i == Head(cands)[1]
           p == Head(cands)[2]
           rest == FilterHits(s, counter_start, gid, Tail(cands))
       IN IF AddressMatches(s, (counter_start + gid) % Modulus, i, p)
            THEN << GpuHit(s, counter_start, gid, i, p) >> \o rest
            ELSE rest

\* Hits of one work-item in program order.
WorkItemHits(s, counter_start, gid) ==
  FilterHits(s, counter_start, gid, CandidatesFrom(0))

\* All orders in which the atomic_inc of the work-items can be served:
\* the interleavings of the per-work-item sequences.
RECURSIVE Interleavings(_)
Interleavings(seqs) ==
  IF \A g \in DOMAIN seqs : seqs[g] = << >> THEN { << >> }
  ELSE UNION { { << Head(seqs[g]) >> \o t :
                   t \in Interleavings([seqs EXCEPT ![g] = Tail(seqs[g])]) } :
               g \in { h \in DOMAIN seqs : seqs[h] # << >> } }

Prefix(s, n) == SubSeq(s, 1, Min(n, Len(s)))

\* Outcome of one kernel execution after queue.finish(): the raw hit count
\* and the first max_hits slots of the hit buffer.
KernelRuns(s, counter_start) ==
  { [ raw_hit_count |-> Len(order), hits |-> Prefix(order, MAX_HITS) ] :
      order \in Interleavings([g \in WorkItems |->
                                 WorkItemHits(s, counter_start, g)]) }

(***************************************************************************)
(* Host side of run_batch.                                                 *)
(***************************************************************************)
\* VanityResult built by verify_hit from a hit record.
VanityResult(hit) ==
  [ entropy       |-> hit.entropy,
    work_item_id  |-> hit.work_item_id,
    address_index |-> hit.address_index,
    pattern_index |-> hit.pattern_index,
    address       |-> DerivedAddress(hit.entropy, hit.address_index),
    mnemonic      |-> entropy_to_mnemonic(hit.entropy) ]

\* Variant: a record that fails the prefix test makes the call fail.
verify_hit_mismatch_is_error(patterns, ignore_case, hit) ==
  IF DerivationFails(hit.entropy, hit.address_index)
    THEN << "Err", "bip32 error" >>
  ELSE IF hit.pattern_index >= Len(patterns)
    THEN << "Err", "pattern_index out of range" >>
  ELSE IF PrefixMatches(DerivedAddress(hit.entropy, hit.address_index),
                        patterns[hit.pattern_index + 1], ignore_case)
    THEN << "Ok", << VanityResult(hit) >> >>
  ELSE << "Err", "did not verify" >>

\* verify_hit (lines 245-313): the host re-derives the address; Err when the
\* derivation fails or pattern_index is out of range, Ok(Some(result)) when
\* the prefix matches, Ok(None) (after a warning) when it does not.
verify_hit(patterns, ignore_case, hit) ==
  IF DerivationFails(hit.entropy, hit.address_index)
    THEN << "Err", "bip32 error" >>
  ELSE IF hit.pattern_index >= Len(patterns)
    THEN << "Err", "pattern_index out of range" >>
  ELSE IF PrefixMatches(DerivedAddress(hit.entropy, hit.address_index),
                        patterns[hit.pattern_index + 1], ignore_case)
    THEN << "Ok", << VanityResult(hit) >> >>
  ELSE << "Ok", None >>

\* lines 220-226: for hit in hits { if let Some(r) = verify_hit(&hit)? .. }
\* The outcome lists the results pushed and the records warned about; the
\* first Err ends the loop and the call.
RECURSIVE VerifyAll(_, _, _, _)
VerifyAll(patterns, ignore_case, hits, acc) ==
  IF hits = << >> THEN acc
  ELSE LET v == verify_hit(patterns, ignore_case, Head(hits)) IN
    IF v[1] = "Err"
      THEN [ acc EXCEPT !.status = "Err" ]
    ELSE IF v[2] = None
      THEN VerifyAll(patterns, ignore_case, Tail(hits),
                     [ acc EXCEPT !.warnings = Append(@, Head(hits)) ])
    ELSE VerifyAll(patterns, ignore_case, Tail(hits),
                   [ acc EXCEPT !.results = Append(@, v[2][1]) ])

\* let hit_count = raw_hit_count.min(MAX_HITS); read_hits(hit_count)
read_hits(buffer, count) == Prefix(buffer, Min(count, MAX_HITS))

\* Variant: the excess is assigned instead of added.
DroppedAssigned(dropped, raw_hit_count) ==
  IF raw_hit_count > MAX_HITS
    THEN raw_hit_count - MAX_HITS
    ELSE dropped

\* if raw_hit_count > MAX_HITS { hits_dropped_total += raw - MAX_HITS }
DroppedAfter(dropped, raw_hit_count) ==
  IF raw_hit_count > MAX_HITS
    THEN dropped + (raw_hit_count - MAX_HITS)
    ELSE dropped

\* lines 214-231 of run_batch: read, verify, sort.  status is "Ok" or
\* "Err"; results is what Ok carries; warnings are the records dropped.
BatchOutcome(patterns, ignore_case, raw_hit_count, buffer) ==
  LET hit_count == Min(raw_hit_count, MAX_HITS)
      empty == [ status |-> "Ok", results |-> << >>, warnings |-> << >> ]
  IN IF hit_count = 0 THEN empty
     ELSE LET v == VerifyAll(patterns, ignore_case,
                             read_hits(buffer, hit_count), empty)
          IN IF v.status = "Err" THEN v
             ELSE [ v EXCEPT !.results = sort_results_deterministically(@) ]

\* The same for a pipeline built with the configured patterns.
BatchResults(raw_hit_count, buffer) ==
  BatchOutcome(CfgPatterns, CfgIgnoreCase, raw_hit_count, buffer)

(***************************************************************************)
(* State                                                                   *)
(***************************************************************************)
VARIABLES
  \* ---- MultiGpuRunner::run ----
  salt,               \* the 32-byte salt shared by all workers
  max_results,        \* self.max_results
  duration,           \* self.duration: TRUE for Some(_), FALSE for None
  counter,            \* Arc<AtomicU64>
  stop,               \* Arc<AtomicBool>
  total_checked,      \* Arc<AtomicU64>
  chan,               \* messages in flight on the mpsc channel
  wpc,                \* position of each worker thread
  counter_start,      \* worker local: window claimed for the current batch
  batch_results,      \* worker local: results still to be sent
  pipeline,           \* worker local: its VanityPipeline, or None
  cpc,                \* position of the coordinator (the thread calling run)
  results_found,      \* coordinator local
  dropped_hits_total, \* coordinator local
  first_error,        \* coordinator local: Option<String>
  ret,                \* value returned by run
  dpc,                \* position of the deadline thread
  printed,            \* the matches printed by print_result, in order
  batch_budget,       \* model bound: batches a worker may start
  \* ---- history of the run (not program state) ----
  claimed,            \* the windows claimed so far, in claim order
  wrapped,            \* the shared counter has wrapped
  claimsAfterStop,    \* per worker: windows claimed while stop was true
  errorsReceived,     \* Error messages in the order the coordinator got them
  statsSent,          \* per worker: Stats messages sent
  failed,             \* workers that hit an error
  hitsReceived,       \* number of Hit messages the coordinator received
  batchesRun,         \* per worker: batches whose kernel finished / returned Ok
  \* ---- one VanityPipeline and its device (PipeSpec) ----
  p_salt,             \* self.salt, uploaded to the device at construction
  p_pc,               \* "idle", or "kernel" while the device runs a batch
  p_entry,            \* the entry point of the batch in progress
  p_counter,          \* self.counter
  p_addresses_checked, \* self.addresses_checked
  p_hits_dropped_total, \* self.hits_dropped_total
  p_hit_count,        \* device buffer hit_count
  p_hits,             \* device buffer hits[0 .. MAX_HITS-1]
  p_arg1,             \* kernel argument 1: counter_start
  p_wi,               \* the work-items of the running kernel
  p_ret,              \* what the last call returned
  p_batches,          \* model bound: calls made so far
  \* ---- history of the pipeline (not program state) ----
  p_reads,            \* per batch: raw hit count seen and records read
  p_returned,         \* per counter_start: the result lists returned for it
  p_buffers,          \* per counter_start: the buffer contents read for it
  p_windows,          \* counter_start of each finished kernel of run_batch
  \* ---- calls of the pure functions (SortSpec) ----
  s_pc,               \* "input", "sorted" or "batched"
  s_in,               \* the list handed in
  s_out,              \* the list that came out
  \* ---- CPU search (erg-vanity-cpu/src/parallel.rs) ----
  c_pc,               \* where the searching thread is
  c_pattern,          \* pattern
  c_salt,             \* salt
  c_stop,             \* stop: Arc<AtomicBool>
  c_counter,          \* counter: Arc<AtomicU64>
  c_total_attempts,   \* total_attempts
  c_start,            \* start of the reserved window
  c_todo,             \* attempt ids of the window not yet visited
  c_found,            \* what find_map_any has found so far
  c_result,           \* the SearchResult returned
  c_setter,           \* the other thread holding a clone of stop
  c_hist              \* history: what the search has seen and done

ovars == << salt, max_results, duration, counter, stop, total_checked, chan,
            wpc, counter_start, batch_results, pipeline, cpc, results_found,
            dropped_hits_total, first_error, ret, dpc, printed,
            batch_budget >>
hvars == << claimed, wrapped, claimsAfterStop, errorsReceived, statsSent,
            failed, hitsReceived, batchesRun >>
pvars == << p_salt, p_pc, p_entry, p_counter, p_addresses_checked,
            p_hits_dropped_total, p_hit_count, p_hits, p_arg1, p_wi, p_ret,
            p_batches, p_reads, p_returned, p_buffers, p_windows >>
svars == << s_pc, s_in, s_out >>
cvars == << c_pc, c_pattern, c_salt, c_stop, c_counter, c_total_attempts,
           c_start, c_todo, c_found, c_result, c_setter, c_hist >>
vars == << ovars, hvars, pvars, svars, cvars >>

\* A record that no work-item wrote (the buffer is not initialised).
Unwritten ==
  [ entropy |-> << 0, 0 >>, work_item_id |-> 0 - 1, address_index |-> 0 - 1,
    pattern_index |-> 0 - 1 ]

\* The parts of the state a specification does not use stay as they are here.
OrchIdle ==
  /\ batch_budget = 0
  /\ salt = 0
  /\ max_results = 1
  /\ duration = FALSE
  /\ counter = 0
  /\ stop = FALSE
  /\ total_checked = 0
  /\ chan = << >>
  /\ wpc = [w \in Devices |-> "done"]
  /\ counter_start = [w \in Devices |-> 0]
  /\ batch_results = [w \in Devices |-> << >>]
  /\ pipeline = [w \in Devices |-> None]
  /\ cpc = "done"
  /\ results_found = 0
  /\ dropped_hits_total = 0
  /\ first_error = None
  /\ ret = None
  /\ dpc = "none"
  /\ printed = << >>
  /\ claimed = << >>
  /\ wrapped = FALSE
  /\ claimsAfterStop = [w \in Devices |-> 0]
  /\ errorsReceived = << >>
  /\ statsSent = [w \in Devices |-> 0]
  /\ failed = {}
  /\ hitsReceived = 0
  /\ batchesRun = [w \in Devices |-> [ finished |-> 0, ok |-> 0 ]]

PipeIdle ==
  /\ p_salt = 0
  /\ p_pc = "off"
  /\ p_entry = "none"
  /\ p_counter = 0
  /\ p_addresses_checked = 0
  /\ p_hits_dropped_total = 0
  /\ p_hit_count = 0
  /\ p_hits = [k \in 0 .. (MAX_HITS - 1) |-> Unwritten]
  /\ p_arg1 = 0
  /\ p_wi = [g \in WorkItems |->
             [ todo |-> << >>, idx |-> 0 - 1, got |-> << >>, wrote |-> << >> ]]
  /\ p_ret = None
  /\ p_batches = 0
  /\ p_reads = << >>
  /\ p_returned = [c \in Counters |-> {}]
  /\ p_buffers = [c \in Counters |-> {}]
  /\ p_windows = << >>

SortIdle ==
  /\ s_pc = "off"
  /\ s_in = << >>
  /\ s_out = << >>

CpuIdle ==
  /\ c_pc = "off"
  /\ c_pattern = << >>
  /\ c_salt = 0
  /\ c_stop = FALSE
  /\ c_counter = 0
  /\ c_total_attempts = 0
  /\ c_start = 0
  /\ c_todo = {}
  /\ c_found = None
  /\ c_result = None
  /\ c_setter = "none"
  /\ c_hist = << >>

(***************************************************************************)
(* CPU search: search and search_with_salt (erg-vanity-cpu)                *)
(***************************************************************************)
ends_with(address, pattern) ==
  /\ Len(pattern) <= Len(address)
  /\ SubSeq(address, Len(address) - Len(pattern) + 1, Len(address)) = pattern

contains(address, pattern) ==
  \E k \in 0 .. (Len(address) - Len(pattern)) :
    SubSeq(address, k + 1, k + Len(pattern)) = pattern

\* Pattern::matches (matcher.rs:55-61)
PatternMatches(pat, address) ==
  CASE pat.match_type = "Prefix" -> starts_with(address, pat.pattern)
    [] pat.match_type = "Suffix" -> ends_with(address, pat.pattern)
    [] pat.match_type = "Contains" -> contains(address, pat.pattern)

\* is_base58_char (matcher.rs:106-112)
is_base58_char(c) ==
  \/ c \in { "1", "2", "3", "4", "5", "6", "7", "8", "9" }
  \/ c \in { UpperLetters[k] : k \in (1 .. 8) \cup (10 .. 14) \cup (16 .. 26) }
  \/ c \in { LowerLetters[k] : k \in (1 .. 11) \cup (13 .. 26) }

\* Pattern::validate (matcher.rs:91-103)
PatternValidate(pat) ==
  IF pat.pattern = << >> THEN << "Err", "pattern is empty" >>
  ELSE IF \E k \in DOMAIN pat.pattern : ~is_base58_char(pat.pattern[k])
    THEN << "Err", "pattern contains invalid Base58 character" >>
  ELSE << "Ok" >>

\* entropy_from_counter (parallel.rs:103-110): blake2b256(salt || attempt_id)
entropy_from_counter(attempt_id, s) == Entropy(s, attempt_id)

\* generate_address_from_entropy (generator.rs:53-83), the key at index 0
generate_address_from_entropy(entropy) ==
  IF DerivationFails(entropy, 0) THEN << "Err", "derivation failed" >>
  ELSE << "Ok", [ address |-> DerivedAddress(entropy, 0),
                  mnemonic |-> entropy_to_mnemonic(entropy) ] >>

SearchResult(result, attempts) == [ result |-> result, attempts |-> attempts ]

CpuSalts == { 0, 1, 2 }

CpuPatterns ==
  [ pattern : { << >>, << "0" >>, << "9", "l" >>, << "9" >>,
                << "9", "e", "a" >>, << "A", "x" >>, << "z" >> },
    match_type : { "Prefix", "Suffix", "Contains" } ]

\* A caller holds the pattern, a stop flag and a counter; another thread
\* holds a clone of the stop flag and may set it at any moment.
CpuInit ==
  /\ c_pc = "call"
  /\ c_pattern \in CpuPatterns
  /\ c_salt = 0
  /\ c_stop \in BOOLEAN
  /\ c_counter \in { 0, 1 }
  /\ c_total_attempts = 0
  /\ c_start = 0
  /\ c_todo = {}
  /\ c_found = None
  /\ c_result = None
  /\ c_setter = "armed"
  /\ c_hist = [ stop_at_call |-> None, read_stop |-> FALSE, reserved |-> 0 ]
  /\ OrchIdle
  /\ PipeIdle
  /\ SortIdle

\* Variant: search does not validate the pattern.
SearchCallUnvalidated ==
  /\ c_pc = "call"
  /\ \E s \in CpuSalts : c_salt' = s
  /\ c_pc' = "loop"
  /\ c_hist' = [c_hist EXCEPT !.stop_at_call = << c_stop >>]
  /\ UNCHANGED << c_pattern, c_stop, c_counter, c_total_attempts, c_start,
                  c_todo, c_found, c_result, c_setter, ovars, hvars, pvars,
                  svars >>

\* search (parallel.rs:29-46): an invalid pattern returns at once; otherwise
\* a salt is drawn and search_with_salt is entered.
SearchCall ==
  /\ c_pc = "call"
  /\ IF PatternValidate(c_pattern)[1] = "Err"
       THEN /\ c_result' = << SearchResult(None, 0) >>
            /\ c_pc' = "returned"
            /\ UNCHANGED << c_salt, c_hist >>
       ELSE /\ \E s \in CpuSalts : c_salt' = s
            /\ c_pc' = "loop"
            /\ c_hist' = [c_hist EXCEPT !.stop_at_call = << c_stop >>]
            /\ UNCHANGED c_result
  /\ UNCHANGED << c_pattern, c_stop, c_counter, c_total_attempts, c_start,
                  c_todo, c_found, c_setter, ovars, hvars, pvars, svars >>

\* lines 58-61 and 93-97: the load of stop at the top of the loop; when it
\* is set the loop breaks and the function returns without a result.
SearchLoopTop ==
  /\ c_pc = "loop"
  /\ IF c_stop
       THEN /\ c_result' = << SearchResult(None, c_total_attempts) >>
            /\ c_pc' = "returned"
            /\ c_hist' = [c_hist EXCEPT !.read_stop = TRUE]
       ELSE /\ c_pc' = "reserve"
            /\ UNCHANGED << c_result, c_hist >>
  /\ UNCHANGED << c_pattern, c_salt, c_stop, c_counter, c_total_attempts,
                  c_start, c_todo, c_found, c_setter, ovars, hvars, pvars,
                  svars >>

\* line 64: counter.fetch_add(batch_size) reserves the window
\* start .. start + batch_size.
SearchReserve ==
  /\ c_pc = "reserve"
  /\ c_hist.reserved < MaxCpuBatches
  /\ c_start' = c_counter
  /\ c_counter' = c_counter + CpuBatchSize
  /\ c_todo' = c_counter .. (c_counter + CpuBatchSize - 1)
  /\ c_found' = None
  /\ c_pc' = "scan"
  /\ c_hist' = [c_hist EXCEPT !.reserved = @ + 1]
  /\ UNCHANGED << c_pattern, c_salt, c_stop, c_total_attempts, c_result,
                  c_setter, ovars, hvars, pvars, svars >>

\* lines 68-80: the closure of find_map_any on one attempt id, run by some
\* rayon thread.  find_map_any returns any one of the matches found.
SearchItem(attempt_id) ==
  /\ c_pc = "scan"
  /\ attempt_id \in c_todo
  /\ c_todo' = c_todo \ { attempt_id }
  /\ LET generated ==
           generate_address_from_entropy(entropy_from_counter(attempt_id, c_salt))
     IN  IF c_stop THEN UNCHANGED c_found
         ELSE IF generated[1] = "Err" THEN UNCHANGED c_found
         ELSE IF PatternMatches(c_pattern, generated[2].address)
           THEN \/ c_found' = << generated[2] >>
                \/ c_found # None /\ UNCHANGED c_found
         ELSE UNCHANGED c_found
  /\ UNCHANGED << c_pc, c_pattern, c_salt, c_stop, c_counter,
                  c_total_attempts, c_start, c_result, c_setter, c_hist,
                  ovars, hvars, pvars, svars >>

\* Variant: a match is returned without setting stop.
SearchWindowDoneNoStore ==
  /\ c_pc = "scan"
  /\ c_todo = {} \/ c_found # None
  /\ c_total_attempts' = c_total_attempts + CpuBatchSize
  /\ c_todo' = {}
  /\ IF c_found # None
       THEN /\ c_result' = << SearchResult(c_found, c_total_attempts') >>
            /\ c_pc' = "returned"
            /\ UNCHANGED c_stop
       ELSE /\ c_pc' = "loop"
            /\ UNCHANGED << c_stop, c_result >>
  /\ UNCHANGED << c_pattern, c_salt, c_counter, c_start, c_found, c_setter,
                  c_hist, ovars, hvars, pvars, svars >>

\* lines 66-91: find_map_any returns once every attempt id was visited, or
\* earlier with a match (the ids not yet visited are skipped); the window is
\* added to total_attempts; a match sets stop and is returned.
SearchWindowDone ==
  /\ c_pc = "scan"
  /\ c_todo = {} \/ c_found # None
  /\ c_total_attempts' = c_total_attempts + CpuBatchSize
  /\ c_todo' = {}
  /\ IF c_found # None
       THEN /\ c_stop' = TRUE
            /\ c_result' = << SearchResult(c_found, c_total_attempts') >>
            /\ c_pc' = "returned"
       ELSE /\ c_pc' = "loop"
            /\ UNCHANGED << c_stop, c_result >>
  /\ UNCHANGED << c_pattern, c_salt, c_counter, c_start, c_found, c_setter,
                  c_hist, ovars, hvars, pvars, svars >>

\* The thread holding the clone of stop sets it (tests, lines 146-150).
StopSetter ==
  /\ c_setter = "armed"
  /\ c_stop' = TRUE
  /\ c_setter' = "done"
  /\ UNCHANGED << c_pc, c_pattern, c_salt, c_counter, c_total_attempts,
                  c_start, c_todo, c_found, c_result, c_hist, ovars, hvars,
                  pvars, svars >>

CpuNext ==
  \/ SearchCall
  \/ SearchLoopTop
  \/ SearchReserve
  \/ \E attempt_id \in c_todo : SearchItem(attempt_id)
  \/ SearchWindowDone
  \/ StopSetter

CpuSpec == CpuInit /\ [][CpuNext]_vars

(***************************************************************************)
(* MultiGpuRunner::run                                                     *)
(***************************************************************************)
\* State once run has spawned one worker per device, dropped its own sender
\* and spawned the deadline thread (if a duration is set).  max_results >= 1
\* is enforced by main before the runner is built.
OrchInitWith(budget) ==
  /\ batch_budget = budget
  /\ salt \in Salts
  /\ max_results \in 1 .. MaxResultsBound
  /\ duration \in BOOLEAN
  /\ counter = 0
  /\ stop = FALSE
  /\ total_checked = 0
  /\ chan = << >>
  /\ wpc = [w \in Devices |-> "new"]
  /\ counter_start = [w \in Devices |-> 0]
  /\ batch_results = [w \in Devices |-> << >>]
  /\ pipeline = [w \in Devices |-> None]
  /\ cpc = "loop"
  /\ results_found = 0
  /\ dropped_hits_total = 0
  /\ first_error = None
  /\ ret = None
  /\ dpc = IF duration THEN "sleep" ELSE "none"
  /\ printed = << >>
  /\ claimed = << >>
  /\ wrapped = FALSE
  /\ claimsAfterStop = [w \in Devices |-> 0]
  /\ errorsReceived = << >>
  /\ statsSent = [w \in Devices |-> 0]
  /\ failed = {}
  /\ hitsReceived = 0
  /\ batchesRun = [w \in Devices |-> [ finished |-> 0, ok |-> 0 ]]
  /\ PipeIdle
  /\ SortIdle
  /\ CpuIdle

OrchInit == OrchInitWith(MaxBatches)

HitMsg(w, r) == [ type |-> "Hit", device_index |-> w, result |-> r ]
ErrorMsg(w, m) == [ type |-> "Error", device_index |-> w, message |-> m ]
StatsMsg(w, d) == [ type |-> "Stats", device_index |-> w, hits_dropped_total |-> d ]

\* A sender is alive until its thread returns; the receiver lives until run
\* returns.
SendersOpen == { w \in Devices : wpc[w] # "done" }
ReceiverDropped == cpc = "done"

\* VanityPipeline::new_with_device_and_salt returned Ok
WorkerNewOk(w) ==
  /\ wpc[w] = "new"
  /\ pipeline' = [pipeline EXCEPT ![w] =
                    << [ hits_dropped_total |-> 0, addresses_checked |-> 0 ] >>]
  /\ wpc' = [wpc EXCEPT ![w] = "check"]
  /\ UNCHANGED << pvars, svars, cvars, batch_budget, salt, max_results, duration, counter, stop, total_checked,
                  chan, counter_start, batch_results, cpc, results_found,
                  dropped_hits_total, first_error, ret, dpc, printed, hvars >>

\* ... returned Err: send Error, then (next step) store stop and return
WorkerNewErr(w) ==
  /\ wpc[w] = "new"
  /\ chan' = Append(chan, ErrorMsg(w, "new"))
  /\ wpc' = [wpc EXCEPT ![w] = "new_failed"]
  /\ failed' = failed \cup {w}
  /\ UNCHANGED << pvars, svars, cvars, batch_budget, salt, max_results, duration, counter, stop, total_checked,
                  counter_start, batch_results, pipeline, cpc, results_found,
                  dropped_hits_total, first_error, ret, dpc, printed,
                  claimed, wrapped, claimsAfterStop, errorsReceived,
                  statsSent, hitsReceived,
                  batchesRun >>

\* stop.store(true); return   (lines 390-391: no Stats message)
WorkerNewFailed(w) ==
  /\ wpc[w] = "new_failed"
  /\ stop' = TRUE
  /\ wpc' = [wpc EXCEPT ![w] = "done"]
  /\ UNCHANGED << pvars, svars, cvars, batch_budget, salt, max_results, duration, counter, total_checked, chan,
                  counter_start, batch_results, pipeline, cpc, results_found,
                  dropped_hits_total, first_error, ret, dpc, printed, hvars >>

\* Variant: stop is looked at before the first batch only.
WorkerCheckOnce(w) ==
  /\ wpc[w] = "check"
  /\ IF stop /\ pipeline[w][1].addresses_checked = 0
       THEN wpc' = [wpc EXCEPT ![w] = "stats"]
       ELSE IF pipeline[w][1].addresses_checked
                 < batch_budget * BatchSize * NumIndices
              THEN wpc' = [wpc EXCEPT ![w] = "claim"]
              ELSE wpc' = [wpc EXCEPT ![w] = "stats"]
  /\ UNCHANGED << pvars, svars, cvars, batch_budget, salt, max_results, duration, counter, stop, total_checked,
                  chan, counter_start, batch_results, pipeline, cpc,
                  results_found, dropped_hits_total, first_error, ret, dpc,
                  printed, hvars >>

\* while !stop.load(Relaxed)
WorkerCheck(w) ==
  /\ wpc[w] = "check"
  /\ IF stop
       THEN wpc' = [wpc EXCEPT ![w] = "stats"]
       ELSE /\ pipeline[w][1].addresses_checked
                 < batch_budget * BatchSize * NumIndices
            /\ wpc' = [wpc EXCEPT ![w] = "claim"]
  /\ UNCHANGED << pvars, svars, cvars, batch_budget, salt, max_results, duration, counter, stop, total_checked,
                  chan, counter_start, batch_results, pipeline, cpc,
                  results_found, dropped_hits_total, first_error, ret, dpc,
                  printed, hvars >>

\* Variant: the window is read with a plain load, the counter is not advanced.
WorkerClaimLoad(w) ==
  /\ wpc[w] = "claim"
  /\ counter_start' = [counter_start EXCEPT ![w] = counter]
  /\ wpc' = [wpc EXCEPT ![w] = "batch"]
  /\ claimed' = Append(claimed,
       [ worker |-> w, start |-> counter, wrapped |-> wrapped ])
  /\ claimsAfterStop' = [claimsAfterStop EXCEPT ![w] = @ + (IF stop THEN 1 ELSE 0)]
  /\ UNCHANGED << pvars, svars, cvars, batch_budget, salt, max_results, duration, counter, stop, total_checked,
                  chan, batch_results, pipeline, cpc, results_found,
                  dropped_hits_total, first_error, ret, dpc, printed,
                  wrapped, errorsReceived, statsSent, failed, hitsReceived,
                  batchesRun >>

\* let counter_start = counter.fetch_add(cfg.batch_size as u64, Relaxed)
WorkerClaim(w) ==
  /\ wpc[w] = "claim"
  /\ counter_start' = [counter_start EXCEPT ![w] = counter]
  /\ counter' = (counter + BatchSize) % Modulus
  /\ wpc' = [wpc EXCEPT ![w] = "batch"]
  /\ claimed' = Append(claimed,
       [ worker |-> w, start |-> counter,
         wrapped |-> (wrapped \/ counter + BatchSize > Modulus) ])
  /\ wrapped' = (wrapped \/ counter + BatchSize >= Modulus)
  /\ claimsAfterStop' = [claimsAfterStop EXCEPT ![w] = @ + (IF stop THEN 1 ELSE 0)]
  /\ UNCHANGED << pvars, svars, cvars, batch_budget, salt, max_results, duration, stop, total_checked, chan,
                  batch_results, pipeline, cpc, results_found,
                  dropped_hits_total, first_error, ret, dpc, printed,
                  errorsReceived, statsSent, failed, hitsReceived,
                  batchesRun >>

\* pipeline.run_batch_with_counter(counter_start) returned Ok(r)
WorkerBatchOk(w) ==
  /\ wpc[w] = "batch"
  /\ \E run \in KernelRuns(salt, counter_start[w]) :
       /\ pipeline' = [pipeline EXCEPT ![w] =
            << [ hits_dropped_total |->
                   DroppedAfter(@[1].hits_dropped_total, run.raw_hit_count),
                 addresses_checked |->
                   @[1].addresses_checked + BatchSize * NumIndices ] >>]
       /\ BatchResults(run.raw_hit_count, run.hits).status = "Ok"
       /\ batch_results' = [batch_results EXCEPT ![w] =
            BatchResults(run.raw_hit_count, run.hits).results]
  /\ wpc' = [wpc EXCEPT ![w] = "count"]
  /\ batchesRun' = [batchesRun EXCEPT ![w] =
                      [ finished |-> @.finished + 1, ok |-> @.ok + 1 ]]
  /\ UNCHANGED << pvars, svars, cvars, batch_budget, salt, max_results, duration, counter, stop, total_checked,
                  chan, counter_start, cpc, results_found,
                  dropped_hits_total, first_error, ret, dpc, printed,
                  claimed, wrapped, claimsAfterStop, errorsReceived,
                  statsSent, failed, hitsReceived >>

\* ... returned Err(e): send Error (line 400); the failure may come before
\* the kernel has finished, at read_hit_count (addresses_checked already
\* advanced) or at read_hits (the overflow already tallied).
WorkerBatchErr(w) ==
  /\ wpc[w] = "batch"
  /\ \/ UNCHANGED << pipeline, batchesRun >>
     \/ /\ pipeline' = [pipeline EXCEPT ![w] =
             << [ @[1] EXCEPT !.addresses_checked =
                                @ + BatchSize * NumIndices ] >>]
        /\ batchesRun' = [batchesRun EXCEPT ![w].finished = @ + 1]
     \/ /\ \E run \in KernelRuns(salt, counter_start[w]) :
             pipeline' = [pipeline EXCEPT ![w] =
               << [ hits_dropped_total |->
                      DroppedAfter(@[1].hits_dropped_total, run.raw_hit_count),
                    addresses_checked |->
                      @[1].addresses_checked + BatchSize * NumIndices ] >>]
        /\ batchesRun' = [batchesRun EXCEPT ![w].finished = @ + 1]
  /\ chan' = Append(chan, ErrorMsg(w, "batch"))
  /\ wpc' = [wpc EXCEPT ![w] = "batch_failed"]
  /\ failed' = failed \cup {w}
  /\ UNCHANGED << pvars, svars, cvars, batch_budget, salt, max_results, duration, counter, stop, total_checked,
                  counter_start, batch_results, cpc, results_found,
                  dropped_hits_total, first_error, ret, dpc, printed,
                  claimed, wrapped, claimsAfterStop, errorsReceived,
                  statsSent, hitsReceived >>

\* stop.store(true); break   (lines 404-405)
WorkerBatchFailed(w) ==
  /\ wpc[w] = "batch_failed"
  /\ stop' = TRUE
  /\ wpc' = [wpc EXCEPT ![w] = "stats"]
  /\ UNCHANGED << pvars, svars, cvars, batch_budget, salt, max_results, duration, counter, total_checked, chan,
                  counter_start, batch_results, pipeline, cpc, results_found,
                  dropped_hits_total, first_error, ret, dpc, printed, hvars >>

\* Variant: the shared total counts seeds, not addresses.
WorkerCountSeeds(w) ==
  /\ wpc[w] = "count"
  /\ total_checked' = total_checked + BatchSize
  /\ wpc' = [wpc EXCEPT ![w] =
               IF batch_results[w] = << >> THEN "check" ELSE "send"]
  /\ UNCHANGED << pvars, svars, cvars, batch_budget, salt, max_results, duration, counter, stop, chan,
                  counter_start, batch_results, pipeline, cpc, results_found,
                  dropped_hits_total, first_error, ret, dpc, printed, hvars >>

\* total_checked.fetch_add(batch_size * num_indices, Relaxed)
WorkerCount(w) ==
  /\ wpc[w] = "count"
  /\ total_checked' = total_checked + BatchSize * NumIndices
  /\ wpc' = [wpc EXCEPT ![w] =
               IF batch_results[w] = << >> THEN "check" ELSE "send"]
  /\ UNCHANGED << pvars, svars, cvars, batch_budget, salt, max_results, duration, counter, stop, chan,
                  counter_start, batch_results, pipeline, cpc, results_found,
                  dropped_hits_total, first_error, ret, dpc, printed, hvars >>

\* Variant: every Hit is labelled with device 0.
WorkerSendDeviceZero(w) ==
  /\ wpc[w] = "send"
  /\ IF ReceiverDropped
       THEN /\ stop' = TRUE
            /\ wpc' = [wpc EXCEPT ![w] = "done"]
            /\ UNCHANGED << chan, batch_results >>
       ELSE /\ chan' = Append(chan, HitMsg(0, Head(batch_results[w])))
            /\ batch_results' = [batch_results EXCEPT ![w] = Tail(@)]
            /\ wpc' = [wpc EXCEPT ![w] =
                         IF Tail(batch_results[w]) = << >> THEN "check"
                                                          ELSE "send"]
            /\ UNCHANGED stop
  /\ UNCHANGED << pvars, svars, cvars, batch_budget, salt, max_results, duration, counter, total_checked,
                  counter_start, pipeline, cpc, results_found,
                  dropped_hits_total, first_error, ret, dpc, printed, hvars >>

\* for result in batch_results { if tx.send(Hit{..}).is_err() {..} }
WorkerSend(w) ==
  /\ wpc[w] = "send"
  /\ IF ReceiverDropped
       THEN /\ stop' = TRUE
            /\ wpc' = [wpc EXCEPT ![w] = "done"]
            /\ UNCHANGED << chan, batch_results >>
       ELSE /\ chan' = Append(chan, HitMsg(w, Head(batch_results[w])))
            /\ batch_results' = [batch_results EXCEPT ![w] = Tail(@)]
            /\ wpc' = [wpc EXCEPT ![w] =
                         IF Tail(batch_results[w]) = << >> THEN "check"
                                                          ELSE "send"]
            /\ UNCHANGED stop
  /\ UNCHANGED << pvars, svars, cvars, batch_budget, salt, max_results, duration, counter, total_checked,
                  counter_start, pipeline, cpc, results_found,
                  dropped_hits_total, first_error, ret, dpc, printed, hvars >>

\* let _ = tx.send(Stats{..}); the thread returns and drops its sender
WorkerStats(w) ==
  /\ wpc[w] = "stats"
  /\ chan' = IF ReceiverDropped THEN chan
             ELSE Append(chan, StatsMsg(w, pipeline[w][1].hits_dropped_total))
  /\ statsSent' = [statsSent EXCEPT ![w] = @ + 1]
  /\ wpc' = [wpc EXCEPT ![w] = "done"]
  /\ UNCHANGED << pvars, svars, cvars, batch_budget, salt, max_results, duration, counter, stop, total_checked,
                  counter_start, batch_results, pipeline, cpc, results_found,
                  dropped_hits_total, first_error, ret, dpc, printed,
                  claimed, wrapped, claimsAfterStop, errorsReceived, failed,
                  hitsReceived,
                  batchesRun >>

\* Variant: the deadline thread wakes up and stores nothing.
DeadlineNoStore ==
  /\ dpc = "sleep"
  /\ dpc' = "done"
  /\ UNCHANGED << pvars, svars, cvars, batch_budget, salt, max_results, duration, counter, stop, total_checked,
                  chan, wpc, counter_start, batch_results, pipeline, cpc,
                  results_found, dropped_hits_total, first_error, ret,
                  printed, hvars >>

\* Variant: the deadline thread stores false.
DeadlineStoresFalse ==
  /\ dpc = "sleep"
  /\ stop' = FALSE
  /\ dpc' = "done"
  /\ UNCHANGED << pvars, svars, cvars, batch_budget, salt, max_results, duration, counter, total_checked, chan,
                  wpc, counter_start, batch_results, pipeline, cpc,
                  results_found, dropped_hits_total, first_error, ret,
                  printed, hvars >>

\* thread::sleep(duration); stop.store(true, Relaxed)
DeadlineFire ==
  /\ dpc = "sleep"
  /\ stop' = TRUE
  /\ dpc' = "done"
  /\ UNCHANGED << pvars, svars, cvars, batch_budget, salt, max_results, duration, counter, total_checked, chan,
                  wpc, counter_start, batch_results, pipeline, cpc,
                  results_found, dropped_hits_total, first_error, ret,
                  printed, hvars >>

\* Variant: the guard compares with > instead of >=.
CoordHitOffByOne ==
  /\ cpc = "loop"
  /\ chan # << >>
  /\ Head(chan).type = "Hit"
  /\ chan' = Tail(chan)
  /\ hitsReceived' = hitsReceived + 1
  /\ IF results_found > max_results
       THEN /\ stop' = TRUE
            /\ UNCHANGED << results_found, printed >>
       ELSE /\ results_found' = results_found + 1
            /\ printed' = Append(printed,
                 [ match_num |-> results_found + 1,
                   device_index |-> Head(chan).device_index,
                   result |-> Head(chan).result ])
            /\ stop' = (stop \/ results_found + 1 >= max_results)
  /\ UNCHANGED << pvars, svars, cvars, batch_budget, salt, max_results, duration, counter, total_checked, wpc,
                  counter_start, batch_results, pipeline, cpc,
                  dropped_hits_total, first_error, ret, dpc,
                  claimed, wrapped, claimsAfterStop, errorsReceived,
                  statsSent, failed,
                  batchesRun >>

\* Ok(WorkerMessage::Hit { device_index, result })
CoordHit ==
  /\ cpc = "loop"
  /\ chan # << >>
  /\ Head(chan).type = "Hit"
  /\ chan' = Tail(chan)
  /\ hitsReceived' = hitsReceived + 1
  /\ IF results_found >= max_results
       THEN /\ stop' = TRUE
            /\ UNCHANGED << results_found, printed >>
       ELSE /\ results_found' = results_found + 1
            /\ printed' = Append(printed,
                 [ match_num |-> results_found + 1,
                   device_index |-> Head(chan).device_index,
                   result |-> Head(chan).result ])
            /\ stop' = (stop \/ results_found + 1 >= max_results)
  /\ UNCHANGED << pvars, svars, cvars, batch_budget, salt, max_results, duration, counter, total_checked, wpc,
                  counter_start, batch_results, pipeline, cpc,
                  dropped_hits_total, first_error, ret, dpc,
                  claimed, wrapped, claimsAfterStop, errorsReceived,
                  statsSent, failed,
                  batchesRun >>

\* format!("Device {} error: {}", device_index, message)
FormatError(m) == << "Device", m.device_index, "error", m.message >>

\* Variant: first_error is assigned without the is_none test.
CoordErrorOverwrite ==
  /\ cpc = "loop"
  /\ chan # << >>
  /\ Head(chan).type = "Error"
  /\ chan' = Tail(chan)
  /\ first_error' = FormatError(Head(chan))
  /\ stop' = TRUE
  /\ errorsReceived' = Append(errorsReceived, Head(chan))
  /\ UNCHANGED << pvars, svars, cvars, batch_budget, salt, max_results, duration, counter, total_checked, wpc,
                  counter_start, batch_results, pipeline, cpc, results_found,
                  dropped_hits_total, ret, dpc, printed,
                  claimed, wrapped, claimsAfterStop, statsSent, failed,
                  hitsReceived,
                  batchesRun >>

\* Ok(WorkerMessage::Error { device_index, message })
CoordError ==
  /\ cpc = "loop"
  /\ chan # << >>
  /\ Head(chan).type = "Error"
  /\ chan' = Tail(chan)
  /\ first_error' = IF first_error = None THEN FormatError(Head(chan))
                                          ELSE first_error
  /\ stop' = TRUE
  /\ errorsReceived' = Append(errorsReceived, Head(chan))
  /\ UNCHANGED << pvars, svars, cvars, batch_budget, salt, max_results, duration, counter, total_checked, wpc,
                  counter_start, batch_results, pipeline, cpc, results_found,
                  dropped_hits_total, ret, dpc, printed,
                  claimed, wrapped, claimsAfterStop, statsSent, failed,
                  hitsReceived,
                  batchesRun >>

\* Variant: the total is assigned instead of accumulated.
CoordStatsAssign ==
  /\ cpc = "loop"
  /\ chan # << >>
  /\ Head(chan).type = "Stats"
  /\ chan' = Tail(chan)
  /\ dropped_hits_total' = Head(chan).hits_dropped_total
  /\ UNCHANGED << pvars, svars, cvars, batch_budget, salt, max_results, duration, counter, stop, total_checked,
                  wpc, counter_start, batch_results, pipeline, cpc,
                  results_found, first_error, ret, dpc, printed, hvars >>

\* Ok(WorkerMessage::Stats { device_index, hits_dropped_total })
CoordStats ==
  /\ cpc = "loop"
  /\ chan # << >>
  /\ Head(chan).type = "Stats"
  /\ chan' = Tail(chan)
  /\ dropped_hits_total' = dropped_hits_total + Head(chan).hits_dropped_total
  /\ UNCHANGED << pvars, svars, cvars, batch_budget, salt, max_results, duration, counter, stop, total_checked,
                  wpc, counter_start, batch_results, pipeline, cpc,
                  results_found, first_error, ret, dpc, printed, hvars >>

\* Variant: the loop also breaks once stop is set.
CoordBreakOnStop ==
  /\ cpc = "loop"
  /\ \/ (chan = << >> /\ SendersOpen = {})
     \/ stop
  /\ cpc' = "join"
  /\ UNCHANGED << pvars, svars, cvars, batch_budget, salt, max_results, duration, counter, stop, total_checked,
                  chan, wpc, counter_start, batch_results, pipeline,
                  results_found, dropped_hits_total, first_error, ret, dpc,
                  printed, hvars >>

\* Err(RecvTimeoutError::Disconnected) => break
\* (recv_timeout reports Disconnected only when every sender is gone and no
\* message is left in the queue.)
CoordDisconnected ==
  /\ cpc = "loop"
  /\ chan = << >>
  /\ SendersOpen = {}
  /\ cpc' = "join"
  /\ UNCHANGED << pvars, svars, cvars, batch_budget, salt, max_results, duration, counter, stop, total_checked,
                  chan, wpc, counter_start, batch_results, pipeline,
                  results_found, dropped_hits_total, first_error, ret, dpc,
                  printed, hvars >>

\* for handle in handles { handle.join() }; Err(first_error) or Ok(())
CoordJoinReturn ==
  /\ cpc = "join"
  /\ \A w \in Devices : wpc[w] = "done"
  /\ ret' = IF first_error # None THEN << "Err", first_error >> ELSE << "Ok" >>
  /\ cpc' = "done"
  /\ UNCHANGED << pvars, svars, cvars, batch_budget, salt, max_results, duration, counter, stop, total_checked,
                  chan, wpc, counter_start, batch_results, pipeline,
                  results_found, dropped_hits_total, first_error, dpc,
                  printed, hvars >>

Worker(w) ==
  \/ WorkerNewOk(w)
  \/ WorkerNewErr(w)
  \/ WorkerNewFailed(w)
  \/ WorkerCheck(w)
  \/ WorkerClaim(w)
  \/ WorkerBatchErr(w)
  \/ WorkerBatchOk(w)
  \/ WorkerBatchFailed(w)
  \/ WorkerCount(w)
  \/ WorkerSend(w)
  \/ WorkerStats(w)

Coordinator ==
  \/ CoordHit
  \/ CoordError
  \/ CoordStats
  \/ CoordDisconnected
  \/ CoordJoinReturn

Next ==
  \/ \E w \in Devices : Worker(w)
  \/ Coordinator
  \/ DeadlineFire

Spec == OrchInit /\ [][Next]_vars

(***************************************************************************)
(* VanityPipeline: one pipeline, its device buffers and its kernel         *)
(***************************************************************************)
\* counter_start values handed to run_batch_with_counter
CounterStarts == { c \in Counters : c % BatchSize = 0 /\ c < MaxPipeBatches * BatchSize }

\* State after VanityPipeline::new: counters at zero, buffers allocated.
PipeInit ==
  /\ p_salt \in Salts
  /\ p_pc = "idle"
  /\ p_entry = "none"
  /\ p_counter = 0
  /\ p_addresses_checked = 0
  /\ p_hits_dropped_total = 0
  /\ p_hit_count \in 0 .. 1
  /\ p_hits = [k \in 0 .. (MAX_HITS - 1) |-> Unwritten]
  /\ p_arg1 = 0
  /\ p_wi = [g \in WorkItems |->
             [ todo |-> << >>, idx |-> 0 - 1, got |-> << >>, wrote |-> << >> ]]
  /\ p_ret = None
  /\ p_batches = 0
  /\ p_reads = << >>
  /\ p_returned = [c \in Counters |-> {}]
  /\ p_buffers = [c \in Counters |-> {}]
  /\ p_windows = << >>
  /\ OrchIdle
  /\ SortIdle
  /\ CpuIdle

\* .arg(MAX_HITS as u32) // arg 12: max_hits
max_hits_beyond_buffer == MAX_HITS + 1

max_hits == MAX_HITS

\* Variant: the batch starts without reset_hits.
StartKernelNoReset(c, entry) ==
  /\ p_pc = "idle"
  /\ p_batches < MaxPipeBatches
  /\ p_batches' = p_batches + 1
  /\ p_hit_count' = p_hit_count
  /\ p_arg1' = c
  /\ p_entry' = entry
  /\ p_wi' = [g \in WorkItems |->
                [ todo |-> WorkItemHits(p_salt, c, g), idx |-> 0 - 1,
                  got |-> << >>, wrote |-> << >> ]]
  /\ p_pc' = "kernel"
  /\ UNCHANGED << p_windows, p_salt, p_counter, p_addresses_checked,
                  p_hits_dropped_total, p_hits, p_ret, p_reads, p_returned,
                  p_buffers, ovars, hvars, svars, cvars >>

\* reset_hits, set_arg(1, c), kernel.enq(): the device starts the batch
StartKernel(c, entry) ==
  /\ p_pc = "idle"
  /\ p_batches < MaxPipeBatches
  /\ p_batches' = p_batches + 1
  /\ p_hit_count' = 0
  /\ p_arg1' = c
  /\ p_entry' = entry
  /\ p_wi' = [g \in WorkItems |->
                [ todo |-> WorkItemHits(p_salt, c, g), idx |-> 0 - 1,
                  got |-> << >>, wrote |-> << >> ]]
  /\ p_pc' = "kernel"
  /\ UNCHANGED << p_windows, p_salt, p_counter, p_addresses_checked,
                  p_hits_dropped_total, p_hits, p_ret, p_reads, p_returned,
                  p_buffers, ovars, hvars, svars, cvars >>

\* run_batch (lines 187-198): counter_start is self.counter
RunBatchBegin == StartKernel(p_counter, "run_batch")

\* run_batch_with_counter(counter_start)
RunBatchWithCounterBegin ==
  \E c \in CounterStarts : StartKernel(c, "run_batch_with_counter")

\* reset_hits, set_arg or enq returned an error: the call returns Err
RunBatchBeginErr ==
  /\ p_pc = "idle"
  /\ p_batches < MaxPipeBatches
  /\ p_batches' = p_batches + 1
  /\ p_hit_count' \in {p_hit_count, 0}
  /\ p_ret' = << "Err" >>
  /\ UNCHANGED << p_windows, p_salt, p_pc, p_entry, p_counter, p_addresses_checked,
                  p_hits_dropped_total, p_hits, p_arg1, p_wi, p_reads,
                  p_returned, p_buffers, ovars, hvars, svars, cvars >>

\* A work-item found its next match: idx = atomic_inc(hit_count)
KernelAtomicInc(g) ==
  /\ p_pc = "kernel"
  /\ p_wi[g].idx = 0 - 1
  /\ p_wi[g].todo # << >>
  /\ p_wi' = [p_wi EXCEPT ![g].idx = p_hit_count,
                           ![g].got = Append(@, p_hit_count)]
  /\ p_hit_count' = p_hit_count + 1
  /\ UNCHANGED << p_windows, p_salt, p_pc, p_entry, p_counter, p_addresses_checked,
                  p_hits_dropped_total, p_hits, p_arg1, p_ret, p_batches,
                  p_reads, p_returned, p_buffers, ovars, hvars, svars, cvars >>

\* if (idx < max_hits) hits[idx] = record
\* (got and wrote are history: the indices the work-item obtained and the
\* indices it stored a record at, in this batch.)
KernelWrite(g) ==
  /\ p_pc = "kernel"
  /\ p_wi[g].idx >= 0
  /\ p_hits' = IF p_wi[g].idx < max_hits
                 THEN [p_hits EXCEPT ![p_wi[g].idx] = Head(p_wi[g].todo)]
                 ELSE p_hits
  /\ p_wi' = [p_wi EXCEPT ![g] =
                [ todo |-> Tail(@.todo), idx |-> 0 - 1, got |-> @.got,
                  wrote |-> IF @.idx < max_hits THEN Append(@.wrote, @.idx)
                                                ELSE @.wrote ]]
  /\ UNCHANGED << p_windows, p_salt, p_pc, p_entry, p_counter, p_addresses_checked,
                  p_hits_dropped_total, p_hit_count, p_arg1, p_ret,
                  p_batches, p_reads, p_returned, p_buffers, ovars, hvars,
                  svars, cvars >>

KernelFinished ==
  \A g \in WorkItems : p_wi[g].todo = << >> /\ p_wi[g].idx = 0 - 1

\* The hit buffer as a list of its slots.
BufferSeq == [k \in 1 .. MAX_HITS |-> p_hits[k - 1]]

\* A counter advanced by the number of addresses instead of the batch size.
CounterAfterByAddresses ==
  IF p_entry = "run_batch" THEN (p_counter + BatchSize * NumIndices) % Modulus
                           ELSE p_counter

\* self.counter = self.counter.wrapping_add(batch_size)  (run_batch only)
CounterAfter ==
  IF p_entry = "run_batch" THEN (p_counter + BatchSize) % Modulus
                           ELSE p_counter

\* History: the window of a run_batch whose kernel execution finished.
WindowsAfter ==
  IF p_entry = "run_batch" THEN Append(p_windows, p_arg1) ELSE p_windows

\* queue.finish() returned; lines 200-231: advance the counter, read the
\* raw hit count, tally the overflow, read, verify and sort the records.
RunBatchFinish ==
  /\ p_pc = "kernel"
  /\ KernelFinished
  /\ LET raw_hit_count == p_hit_count
         hit_count == Min(raw_hit_count, MAX_HITS)
         hits == IF hit_count = 0 THEN << >> ELSE read_hits(BufferSeq, hit_count)
         outcome == BatchResults(raw_hit_count, BufferSeq)
         results == outcome.results
     IN /\ p_counter' = CounterAfter
        /\ p_windows' = WindowsAfter
        /\ p_addresses_checked' = p_addresses_checked + BatchSize * NumIndices
        /\ p_hits_dropped_total' = DroppedAfter(p_hits_dropped_total, raw_hit_count)
        /\ outcome.status = "Ok"
        /\ p_ret' = << "Ok", results >>
        /\ p_reads' = Append(p_reads, [ raw |-> raw_hit_count, read |-> Len(hits) ])
        /\ p_returned' = [p_returned EXCEPT ![p_arg1] = @ \cup { results }]
        /\ p_buffers' = [p_buffers EXCEPT ![p_arg1] = @ \cup { hits }]
  /\ p_pc' = "idle"
  /\ UNCHANGED << p_salt, p_entry, p_hit_count, p_hits, p_arg1, p_wi,
                  p_batches, ovars, hvars, svars, cvars >>

\* The call fails after the kernel was enqueued: in finish (nothing was
\* updated), in read_hit_count (counter and addresses_checked were), or in
\* read_hits / verify_hit (the overflow was tallied as well).
RunBatchFinishErr ==
  /\ p_pc = "kernel"
  /\ KernelFinished
  /\ \E stage \in {"finish", "read_hit_count", "read_hits"} :
       /\ (stage = "read_hits" => p_hit_count > 0)
       /\ p_counter' = IF stage = "finish" THEN p_counter ELSE CounterAfter
       /\ p_windows' = IF stage = "finish" THEN p_windows ELSE WindowsAfter
       /\ p_addresses_checked' =
            IF stage = "finish" THEN p_addresses_checked
            ELSE p_addresses_checked + BatchSize * NumIndices
       /\ p_hits_dropped_total' =
            IF stage = "read_hits"
              THEN DroppedAfter(p_hits_dropped_total, p_hit_count)
              ELSE p_hits_dropped_total
       /\ p_reads' = IF stage = "read_hits"
                       THEN Append(p_reads, [ raw |-> p_hit_count, read |-> 0 - 1 ])
                       ELSE p_reads
  /\ p_ret' = << "Err" >>
  /\ p_pc' = "idle"
  /\ UNCHANGED << p_salt, p_entry, p_hit_count, p_hits, p_arg1, p_wi,
                  p_batches, p_returned, p_buffers, ovars, hvars, svars, cvars >>

PipeNext ==
  \/ RunBatchBegin
  \/ RunBatchWithCounterBegin
  \/ RunBatchBeginErr
  \/ \E g \in WorkItems : KernelAtomicInc(g)
  \/ \E g \in WorkItems : KernelWrite(g)
  \/ RunBatchFinish
  \/ RunBatchFinishErr

PipeSpec == PipeInit /\ [][PipeNext]_vars

\* A pipeline that has already run k batches with run_batch, for k = 0 and
\* for the k that leaves the counter one batch short of wrapping.
RanBatches == { 0, (Modulus \div BatchSize) - 1 }

CounterInit ==
  /\ p_salt \in Salts
  /\ p_pc = "idle"
  /\ p_entry = "none"
  /\ \E k \in RanBatches :
       /\ p_counter = (k * BatchSize) % Modulus
       /\ p_addresses_checked = k * BatchSize * NumIndices
       /\ p_windows = [i \in 1 .. k |-> ((i - 1) * BatchSize) % Modulus]
  /\ p_hits_dropped_total = 0
  /\ p_hit_count \in 0 .. 1
  /\ p_hits = [k \in 0 .. (MAX_HITS - 1) |-> Unwritten]
  /\ p_arg1 = 0
  /\ p_wi = [g \in WorkItems |->
             [ todo |-> << >>, idx |-> 0 - 1, got |-> << >>, wrote |-> << >> ]]
  /\ p_ret = None
  /\ p_batches = 0
  /\ p_reads = << >>
  /\ p_returned = [c \in Counters |-> {}]
  /\ p_buffers = [c \in Counters |-> {}]
  /\ OrchIdle
  /\ SortIdle
  /\ CpuIdle

CounterSpec == CounterInit /\ [][PipeNext]_vars

(***************************************************************************)
(* Calls of sort_results_deterministically and of the tail of run_batch    *)
(* on arbitrary record lists                                               *)
(***************************************************************************)
\* Records as a device may return them: any work-item, window, address
\* index and pattern index.
SortRecords ==
  { [ entropy       |-> Entropy(1, cs + g),
      work_item_id  |-> g,
      address_index |-> i,
      pattern_index |-> q ] :
      cs \in {0, BatchSize}, g \in 0 .. 1, i \in 0 .. 1, q \in 0 .. 1 }

SeqsUpTo(S, n) == UNION { [1 .. k -> S] : k \in 0 .. n }

SortInit ==
  /\ s_pc = "input"
  /\ s_in \in SeqsUpTo(SortRecords, MaxLen)
  /\ s_out = << >>
  /\ OrchIdle
  /\ PipeIdle
  /\ CpuIdle

\* sort_results_deterministically(&mut results)
SortCall ==
  /\ s_pc = "input"
  /\ s_out' = sort_results_deterministically(s_in)
  /\ s_pc' = "sorted"
  /\ UNCHANGED << s_in, ovars, hvars, pvars, cvars >>

\* run_batch from read_hit_count on (lines 206-231), the device having
\* counted Len(s_in) hits and the buffer holding the first MAX_HITS of them
RunBatchTail ==
  /\ s_pc = "input"
  /\ BatchResults(Len(s_in), Prefix(s_in, MAX_HITS)).status = "Ok"
  /\ s_out' = BatchResults(Len(s_in), Prefix(s_in, MAX_HITS)).results
  /\ s_pc' = "batched"
  /\ UNCHANGED << s_in, ovars, hvars, pvars, cvars >>

SortNext == SortCall \/ RunBatchTail

SortSpec == SortInit /\ [][SortNext]_vars

(***************************************************************************)
(* VerifySpec: the tail of run_batch on whatever the device left in the    *)
(* hit buffer, a faulty kernel's records included.                         *)
(***************************************************************************)
\* Records a device can leave in the buffer: entropies whose addresses match
\* some pattern, match none, or whose key derivation fails; pattern indices
\* inside and outside the pattern list.
DeviceRecords ==
  { [ entropy       |-> e,
      work_item_id  |-> 0,
      address_index |-> i,
      pattern_index |-> q ] :
      e \in { Entropy(1, 1), Entropy(1, 2), Entropy(2, 0) },
      i \in 0 .. 1, q \in 0 .. NumPatterns }

\* Pattern lists a pipeline is built with.
VerifyPatternLists == { CfgPatterns, << << "9", "E" >> >> }

VerifyInit ==
  /\ s_pc = "hits"
  /\ s_in \in [ patterns : VerifyPatternLists,
                ignore_case : BOOLEAN,
                hits : SeqsUpTo(DeviceRecords, MaxLen) ]
  /\ s_out = << >>
  /\ OrchIdle
  /\ PipeIdle
  /\ CpuIdle

\* run_batch from read_hit_count on (lines 206-231) for a pipeline with
\* s_in.patterns and s_in.ignore_case
RunBatchVerify ==
  /\ s_pc = "hits"
  /\ s_out' = BatchOutcome(s_in.patterns, s_in.ignore_case, Len(s_in.hits),
                           Prefix(s_in.hits, MAX_HITS))
  /\ s_pc' = "verified"
  /\ UNCHANGED << s_in, ovars, hvars, pvars, cvars >>

VerifySpec == VerifyInit /\ [][RunBatchVerify]_vars

(***************************************************************************)
(* validate_pattern (erg-vanity-cli/src/main.rs) and ValidateSpec          *)
(***************************************************************************)
\* const BASE58_ALPHABET
BASE58_ALPHABET ==
  { "1", "2", "3", "4", "5", "6", "7", "8", "9",
    "A", "B", "C", "D", "E", "F", "G", "H", "J", "K", "L", "M", "N", "P",
    "Q", "R", "S", "T", "U", "V", "W", "X", "Y", "Z",
    "a", "b", "c", "d", "e", "f", "g", "h", "i", "j", "k", "m", "n", "o",
    "p", "q", "r", "s", "t", "u", "v", "w", "x", "y", "z" }

\* const VALID_SECOND_CHARS
VALID_SECOND_CHARS == { "e", "f", "g", "h", "i" }

\* The one non-ASCII character of the model; it takes two bytes in UTF-8.
NonAscii == { "é" }
Utf8Len(ch) == IF ch \in NonAscii THEN 2 ELSE 1

\* str::len: the length in bytes
RECURSIVE StrLen(_)
StrLen(pattern) ==
  IF pattern = << >> THEN 0
  ELSE Utf8Len(Head(pattern)) + StrLen(Tail(pattern))

\* str::is_ascii
is_ascii(pattern) == \A k \in DOMAIN pattern : pattern[k] \notin NonAscii

\* str::to_lowercase (on the characters of the model, where it agrees with
\* the ASCII mapping; the non-ASCII character has no upper case form)
to_lowercase(pattern) ==
  [ k \in DOMAIN pattern |-> to_ascii_lowercase(pattern[k]) ]

\* Variant: under ignore_case the pattern is returned in upper case.
validate_pattern_uppercased(pattern, ignore_case) ==
  IF pattern = << >> THEN << "Err", "empty" >>
  ELSE IF StrLen(pattern) > MAX_PATTERN_LEN THEN << "Err", "too long" >>
  ELSE IF ~is_ascii(pattern) THEN << "Err", "non-ASCII" >>
  ELSE IF \E k \in DOMAIN pattern : pattern[k] \notin BASE58_ALPHABET
    THEN << "Err", "invalid Base58" >>
  ELSE IF pattern[1] # "9" THEN << "Err", "P2PK prefix" >>
  ELSE IF Len(pattern) >= 2
          /\ (IF ignore_case THEN to_ascii_lowercase(pattern[2]) ELSE pattern[2])
               \notin VALID_SECOND_CHARS
    THEN IF ignore_case THEN << "Err", "P2PK prefix" >>
         ELSE IF pattern[2] \in { to_ascii_uppercase(c) : c \in VALID_SECOND_CHARS }
           THEN << "Err", "uppercase" >>
         ELSE << "Err", "P2PK prefix" >>
  ELSE << "Ok", IF ignore_case
                  THEN [ k \in DOMAIN pattern |-> to_ascii_uppercase(pattern[k]) ]
                  ELSE pattern >>

\* Variant: the pattern is returned as given, also under ignore_case.
validate_pattern_not_normalized(pattern, ignore_case) ==
  IF pattern = << >> THEN << "Err", "empty" >>
  ELSE IF StrLen(pattern) > MAX_PATTERN_LEN THEN << "Err", "too long" >>
  ELSE IF ~is_ascii(pattern) THEN << "Err", "non-ASCII" >>
  ELSE IF \E k \in DOMAIN pattern : pattern[k] \notin BASE58_ALPHABET
    THEN << "Err", "invalid Base58" >>
  ELSE IF pattern[1] # "9" THEN << "Err", "P2PK prefix" >>
  ELSE IF Len(pattern) >= 2
          /\ (IF ignore_case THEN to_ascii_lowercase(pattern[2]) ELSE pattern[2])
               \notin VALID_SECOND_CHARS
    THEN IF ignore_case THEN << "Err", "P2PK prefix" >>
         ELSE IF pattern[2] \in { to_ascii_uppercase(c) : c \in VALID_SECOND_CHARS }
           THEN << "Err", "uppercase" >>
         ELSE << "Err", "P2PK prefix" >>
  ELSE << "Ok", pattern >>

\* Variant: an uppercase second character gets the general message.
validate_pattern_no_hint(pattern, ignore_case) ==
  IF pattern = << >> THEN << "Err", "empty" >>
  ELSE IF StrLen(pattern) > MAX_PATTERN_LEN THEN << "Err", "too long" >>
  ELSE IF ~is_ascii(pattern) THEN << "Err", "non-ASCII" >>
  ELSE IF \E k \in DOMAIN pattern : pattern[k] \notin BASE58_ALPHABET
    THEN << "Err", "invalid Base58" >>
  ELSE IF pattern[1] # "9" THEN << "Err", "P2PK prefix" >>
  ELSE IF Len(pattern) >= 2
          /\ (IF ignore_case THEN to_ascii_lowercase(pattern[2]) ELSE pattern[2])
               \notin VALID_SECOND_CHARS
    THEN << "Err", "P2PK prefix" >>
  ELSE << "Ok", IF ignore_case THEN to_lowercase(pattern) ELSE pattern >>

\* validate_pattern (lines 93-179).  The result is Ok(normalized pattern) or
\* Err(message); the messages are told apart by what they say: "empty",
\* "too long", "non-ASCII", "invalid Base58", the general "P2PK prefix"
\* message, and the "uppercase" message that suggests -i or the lowercase
\* form.
validate_pattern(pattern, ignore_case) ==
  IF pattern = << >> THEN << "Err", "empty" >>
  ELSE IF StrLen(pattern) > MAX_PATTERN_LEN THEN << "Err", "too long" >>
  ELSE IF ~is_ascii(pattern) THEN << "Err", "non-ASCII" >>
  ELSE IF \E k \in DOMAIN pattern : pattern[k] \notin BASE58_ALPHABET
    THEN << "Err", "invalid Base58" >>
  ELSE IF pattern[1] # "9" THEN << "Err", "P2PK prefix" >>
  ELSE IF Len(pattern) >= 2
          /\ (IF ignore_case THEN to_ascii_lowercase(pattern[2]) ELSE pattern[2])
               \notin VALID_SECOND_CHARS
    THEN IF ignore_case THEN << "Err", "P2PK prefix" >>
         ELSE IF pattern[2] \in { to_ascii_uppercase(c) : c \in VALID_SECOND_CHARS }
           THEN << "Err", "uppercase" >>
         ELSE << "Err", "P2PK prefix" >>
  ELSE << "Ok", IF ignore_case THEN to_lowercase(pattern) ELSE pattern >>

\* Characters the patterns of ValidateSpec are made of: digits and letters
\* inside and outside the Base58 alphabet, in both cases, and a non-ASCII
\* character.
PatternChars == { "9", "e", "i", "E", "I", "L", "0", "é" }

ValidateInit ==
  /\ s_pc = "pattern"
  /\ s_in \in [ pattern : SeqsUpTo(PatternChars, MAX_PATTERN_LEN + 1),
                ignore_case : BOOLEAN ]
  /\ s_out = << >>
  /\ OrchIdle
  /\ PipeIdle
  /\ CpuIdle

\* validate_pattern(&pattern, ignore_case)
ValidateCall ==
  /\ s_pc = "pattern"
  /\ s_out' = validate_pattern(s_in.pattern, s_in.ignore_case)
  /\ s_pc' = "validated"
  /\ UNCHANGED << s_in, ovars, hvars, pvars, cvars >>

\* validate_pattern(&normalized, ignore_case): the pattern a successful call
\* returned is validated under the same flag.
ValidateNormalized ==
  /\ s_pc = "validated"
  /\ s_out[1] = "Ok"
  /\ s_out' = [ first |-> s_out,
                second |-> validate_pattern(s_out[2], s_in.ignore_case) ]
  /\ s_pc' = "revalidated"
  /\ UNCHANGED << s_in, ovars, hvars, pvars, cvars >>

ValidateNext ==
  \/ ValidateCall
  \/ ValidateNormalized

ValidateSpec == ValidateInit /\ [][ValidateNext]_vars

\* ---------------------------------------------------------------------
\* main: argument checks, device selection and the exit code
\* (erg-vanity-cli/src/main.rs, erg-vanity-gpu/src/context.rs)
\* ---------------------------------------------------------------------

MAX_PATTERNS == 64
MAX_PATTERN_DATA == 1024
MAX_NUM_INDICES == 100

\* Decimal digits; str::parse::<usize> of a one-digit part.
Digits == << "0", "1", "2", "3", "4", "5", "6", "7", "8", "9" >>

parse_usize(part) ==
  IF \E k \in DOMAIN Digits : Digits[k] = part
    THEN << "Ok", (CHOOSE k \in DOMAIN Digits : Digits[k] = part) - 1 >>
    ELSE << "Err", "invalid digit" >>

\* GpuContext::enumerate_devices: env.platforms tells whether any OpenCL
\* platform is installed, env.gpus how many GPUs the platforms list; the
\* global indices are 0 .. gpus - 1.
enumerate_devices(env) ==
  IF ~env.platforms THEN << "Err", "no OpenCL platforms found" >>
  ELSE << "Ok", 0 .. env.gpus - 1 >>

\* list_devices (lines 234-250): an empty enumeration is printed, not an error.
list_devices(env) ==
  LET devices == enumerate_devices(env)
  IN  IF devices[1] = "Err" THEN devices ELSE << "Ok", "printed" >>

\* The loop of parse_device_list over the comma-separated parts.
RECURSIVE ParseParts(_, _, _)
ParseParts(parts, available_set, parsed) ==
  IF parts = << >> THEN << "Ok", parsed >>
  ELSE LET trimmed == Head(parts)
           idx == parse_usize(trimmed)
       IN  IF trimmed = "" THEN ParseParts(Tail(parts), available_set, parsed)
           ELSE IF idx[1] = "Err" THEN << "Err", "invalid device index" >>
           ELSE IF idx[2] \notin available_set
             THEN << "Err", "device index not found" >>
           ELSE ParseParts(Tail(parts), available_set, Append(parsed, idx[2]))

\* parse_device_list (lines 253-295).  devices_arg is the argument split at
\* its commas; the result of sort_unstable and dedup is given as the set of
\* the indices.
parse_device_list(devices_arg, env) ==
  LET devices == enumerate_devices(env)
  IN  IF devices[1] = "Err" THEN devices
      ELSE IF devices[2] = {} THEN << "Err", "no OpenCL GPU devices found" >>
      ELSE IF devices_arg = << "all" >> THEN << "Ok", devices[2] >>
      ELSE LET parsed == ParseParts(devices_arg, devices[2], << >>)
           IN  IF parsed[1] = "Err" THEN parsed
               ELSE IF parsed[2] = << >>
                 THEN << "Err", "no device indices provided" >>
               ELSE << "Ok", { parsed[2][k] : k \in DOMAIN parsed[2] } >>

\* The validation loop of parse_patterns: the first error is returned.
RECURSIVE ValidateEach(_, _, _)
ValidateEach(originals, ignore_case, normalized) ==
  IF originals = << >> THEN << "Ok", normalized >>
  ELSE LET v == validate_pattern(Head(originals), ignore_case)
       IN  IF v[1] = "Err" THEN v
           ELSE ValidateEach(Tail(originals), ignore_case,
                             Append(normalized, v[2]))

\* parse_patterns (lines 183-229): the -p patterns and the positional one,
\* the empty ones left out.
parse_patterns(args) ==
  LET from_flag == SelectSeq(args.patterns, LAMBDA pat : pat # << >>)
      originals == IF args.pattern # None /\ args.pattern[1] # << >>
                     THEN Append(from_flag, args.pattern[1]) ELSE from_flag
      total_len == SumSeq([ k \in DOMAIN originals |-> StrLen(originals[k]) ])
  IN  IF originals = << >> THEN << "Err", "at least one pattern is required" >>
      ELSE IF Len(originals) > MAX_PATTERNS THEN << "Err", "too many patterns" >>
      ELSE IF total_len > MAX_PATTERN_DATA
        THEN << "Err", "pattern data too large" >>
      ELSE ValidateEach(originals, args.ignore_case, << >>)

\* main (lines 543-659): the exit code of the process.  env.bench_fails and
\* env.run_fails tell whether run_bench_on_device and MultiGpuRunner::run
\* return an error.
main(args, env) ==
  IF args.list_devices
    THEN IF list_devices(env)[1] = "Err" THEN 1 ELSE 0
  ELSE IF args.bench
    THEN IF parse_device_list(args.devices, env)[1] = "Err" THEN 2
         ELSE IF env.bench_fails THEN 1 ELSE 0
  ELSE IF parse_patterns(args)[1] = "Err" THEN 2
  ELSE IF args.num_indices = 0 THEN 2
  ELSE IF args.num_indices > MAX_NUM_INDICES THEN 2
  ELSE IF args.max_results = 0 THEN 2
  ELSE IF parse_device_list(args.devices, env)[1] = "Err" THEN 2
  ELSE IF env.run_fails THEN 1 ELSE 0

\* The parts a --devices argument is made of: the indices 0 .. NumDevices,
\* a word that is no number, and an empty part.
DeviceParts == { Digits[k] : k \in 1 .. NumDevices + 1 } \cup { "x", "" }

MainArgs ==
  [ list_devices : BOOLEAN, bench : BOOLEAN,
    patterns : { << >>, << << "9", "e" >> >>, << << "0" >> >> },
    pattern : { None }, ignore_case : { FALSE },
    num_indices : { 0, 1, MAX_NUM_INDICES + 1 }, max_results : { 0, 1 },
    devices : { << "all" >> } \cup SeqsUpTo(DeviceParts, 2) ]

MainEnvs ==
  [ platforms : BOOLEAN, gpus : 0 .. NumDevices,
    bench_fails : BOOLEAN, run_fails : BOOLEAN ]

MainInit ==
  /\ s_pc = "args"
  /\ s_in \in [ args : MainArgs, env : MainEnvs ]
  /\ s_out = << >>
  /\ OrchIdle
  /\ PipeIdle
  /\ CpuIdle

\* One run of the program up to its exit.
MainRun ==
  /\ s_pc = "args"
  /\ s_out' = main(s_in.args, s_in.env)
  /\ s_pc' = "exited"
  /\ UNCHANGED << s_in, ovars, hvars, pvars, cvars >>

MainSpec == MainInit /\ [][MainRun]_vars

\* ---------------------------------------------------------------------
\* BIP32 key derivation (erg-vanity-bip/src/bip32.rs) over a curve order
\* and byte widths scaled down
\* ---------------------------------------------------------------------

\* N, the order of the curve group (secp256k1/scalar.rs); here a prime below
\* 2^KeyBits, so that key bytes can hold values >= n.
CurveOrder == 5

\* HARDENED = 0x80000000, the top bit of an index
HARDENED == 2 ^ (IndexBits - 1)
ChildIndices == 0 .. (2 ^ IndexBits - 1)

HmacModulus == 2 ^ (KeyBits + ChainCodeBits)

\* The seed lengths InvalidSeedLength is decided on.
MIN_SEED_LEN == 16
MAX_SEED_LEN == 64

\* The bytes "Bitcoin seed" as a key of the HMAC.
BitcoinSeed == 1

RECURSIVE HmacMix(_, _)
HmacMix(bytes, acc) ==
  IF bytes = << >> THEN acc
  ELSE HmacMix(Tail(bytes), (acc * 31 + Head(bytes)) % HmacModulus)

\* hmac_sha512(key, data): a fixed function of its input whose 64 bytes
\* split into IL and IR.  s_in.oracle selects the function, so that every
\* input meets every output.
hmac_sha512(key, data) ==
  LET h == HmacMix(<< key >> \o data, s_in.oracle)
  IN  [ il |-> h \div (2 ^ ChainCodeBits), ir |-> h % (2 ^ ChainCodeBits) ]

\* Scalar::from_bytes (scalar.rs:42-67): None when the value is >= n.
ScalarFromBytes(bytes) == IF bytes >= CurveOrder THEN None ELSE << bytes >>

\* Scalar::add (scalar.rs:98-113)
ScalarAdd(a, b) == (a + b) % CurveOrder

\* PublicKey::from_private_key (pubkey.rs:21-38): the compressed encoding
\* of k*G, a parity prefix and the x coordinate; k and n - k share x.
PublicKeyFromPrivateKey(k) ==
  IF k = 0 THEN None
  ELSE << << IF 2 * k > CurveOrder THEN 3 ELSE 2,
             IF 2 * k > CurveOrder THEN CurveOrder - k ELSE k >> >>

ExtendedPrivateKey(key, chain_code) == [ key |-> key, chain_code |-> chain_code ]

\* Variant: from_seed does not reject a zero key.
from_seed_allows_zero(seed) ==
  IF seed.len < MIN_SEED_LEN \/ seed.len > MAX_SEED_LEN
    THEN << "Err", "InvalidSeedLength" >>
  ELSE LET hmac == hmac_sha512(BitcoinSeed, << seed.len, seed.value >>)
       IN  IF ScalarFromBytes(hmac.il) = None
             THEN << "Err", "InvalidChildKey" >>
           ELSE << "Ok", ExtendedPrivateKey(hmac.il, hmac.ir) >>

\* ExtendedPrivateKey::from_seed (lines 39-60)
from_seed(seed) ==
  IF seed.len < MIN_SEED_LEN \/ seed.len > MAX_SEED_LEN
    THEN << "Err", "InvalidSeedLength" >>
  ELSE LET hmac == hmac_sha512(BitcoinSeed, << seed.len, seed.value >>)
       IN  IF ScalarFromBytes(hmac.il) = None
             THEN << "Err", "InvalidChildKey" >>
           ELSE IF hmac.il = 0 THEN << "Err", "ZeroKey" >>
           ELSE << "Ok", ExtendedPrivateKey(hmac.il, hmac.ir) >>

\* ExtendedPrivateKey::derive_child (lines 73-117)
derive_child(ext, index) ==
  LET parent_scalar == ScalarFromBytes(ext.key)
  IN  IF parent_scalar = None THEN << "Err", "InvalidChildKey" >>
      ELSE IF index < HARDENED
              /\ PublicKeyFromPrivateKey(parent_scalar[1]) = None
        THEN << "Err", "ZeroKey" >>
      ELSE
        LET data == IF index >= HARDENED
                      THEN << 0, ext.key, index >>
                      ELSE PublicKeyFromPrivateKey(parent_scalar[1])[1]
                             \o << index >>
            hmac == hmac_sha512(ext.chain_code, data)
            il_scalar == ScalarFromBytes(hmac.il)
        IN  IF il_scalar = None THEN << "Err", "InvalidChildKey" >>
            ELSE IF il_scalar[1] = 0 THEN << "Err", "InvalidChildKey" >>
            ELSE LET child_scalar == ScalarAdd(il_scalar[1], parent_scalar[1])
                 IN  IF child_scalar = 0 THEN << "Err", "ZeroKey" >>
                     ELSE << "Ok", ExtendedPrivateKey(child_scalar, hmac.ir) >>

\* ExtendedPrivateKey::derive_hardened (lines 65-67): index | HARDENED
derive_hardened(ext, index) ==
  derive_child(ext, IF index >= HARDENED THEN index ELSE index + HARDENED)

\* ExtendedPrivateKey::derive_path (lines 123-129)
RECURSIVE derive_path(_, _)
derive_path(ext, path) ==
  IF path = << >> THEN << "Ok", ext >>
  ELSE LET current == derive_child(ext, Head(path))
       IN  IF current[1] = "Err" THEN current
           ELSE derive_path(current[2], Tail(path))

\* bip44.rs: PURPOSE = 44 and ERGO_COIN_TYPE = 429, reduced to the width of
\* the unhardened indices.
PURPOSE == 44 % HARDENED
ERGO_COIN_TYPE == 429 % HARDENED

\* HARDENED | i for an unhardened i
HardenedIndex(i) == IF i >= HARDENED THEN i ELSE i + HARDENED

\* Variant: the account level is derived unhardened.
derive_ergo_key_account_unhardened(master, account, change, address_index) ==
  derive_path(master, << HardenedIndex(PURPOSE), HardenedIndex(ERGO_COIN_TYPE),
                         account, change, address_index >>)

\* derive_ergo_key (bip44.rs:17-32): m/44'/429'/account'/change/index
derive_ergo_key(master, account, change, address_index) ==
  derive_path(master, << HardenedIndex(PURPOSE), HardenedIndex(ERGO_COIN_TYPE),
                         HardenedIndex(account), change, address_index >>)

\* Seeds: a length around the two limits and the bytes.
Bip32Seeds ==
  [ len : { MIN_SEED_LEN - 1, MIN_SEED_LEN, MAX_SEED_LEN, MAX_SEED_LEN + 1 },
    value : { 0, 1, 7 } ]

\* Indices the paths are made of.
PathIndices == { 0, 1, HARDENED, HARDENED + 1 }

\* What a call leaves behind: the key the caller now holds (the result, or
\* the key it had when the call failed) and the call itself.
Bip32After(op, ext, arg, result) ==
  [ ext |-> IF result[1] = "Ok" THEN << result[2] >> ELSE ext,
    last |-> << [ op |-> op, ext |-> ext, arg |-> arg, result |-> result ] >> ]

Bip32Init ==
  /\ s_pc = "seed"
  /\ s_in \in [ oracle : 0 .. (HmacModulus - 1), seed : Bip32Seeds ]
  /\ s_out = [ ext |-> None, last |-> None ]
  /\ OrchIdle
  /\ PipeIdle
  /\ CpuIdle

FromSeed ==
  /\ s_pc = "seed"
  /\ s_out' = Bip32After("from_seed", None, s_in.seed, from_seed(s_in.seed))
  /\ s_pc' = IF from_seed(s_in.seed)[1] = "Ok" THEN "key" ELSE "failed"
  /\ UNCHANGED << s_in, ovars, hvars, pvars, cvars >>

DeriveChild(index) ==
  /\ s_pc = "key"
  /\ s_out' = Bip32After("derive_child", s_out.ext, index,
                         derive_child(s_out.ext[1], index))
  /\ UNCHANGED << s_pc, s_in, ovars, hvars, pvars, cvars >>

DeriveHardened(index) ==
  /\ s_pc = "key"
  /\ s_out' = Bip32After("derive_hardened", s_out.ext, index,
                         derive_hardened(s_out.ext[1], index))
  /\ UNCHANGED << s_pc, s_in, ovars, hvars, pvars, cvars >>

DerivePath(path) ==
  /\ s_pc = "key"
  /\ s_out' = Bip32After("derive_path", s_out.ext, path,
                         derive_path(s_out.ext[1], path))
  /\ UNCHANGED << s_pc, s_in, ovars, hvars, pvars, cvars >>

\* derive_ergo_key(&master, account, change, address_index)
DeriveErgoKey(account, change, address_index) ==
  /\ s_pc = "key"
  /\ s_out' = Bip32After("derive_ergo_key", s_out.ext,
                         << account, change, address_index >>,
                         derive_ergo_key(s_out.ext[1], account, change,
                                         address_index))
  /\ UNCHANGED << s_pc, s_in, ovars, hvars, pvars, cvars >>

Bip32Next ==
  \/ FromSeed
  \/ \E index \in ChildIndices : DeriveChild(index)
  \/ \E index \in ChildIndices : DeriveHardened(index)
  \/ \E path \in SeqsUpTo(PathIndices, MaxPathLen) : DerivePath(path)
  \/ \E account, change \in 0 .. 1 :
       \E address_index \in 0 .. (HARDENED - 1) :
         DeriveErgoKey(account, change, address_index)

Bip32Spec == Bip32Init /\ [][Bip32Next]_vars

\* ---------------------------------------------------------------------
\* BIP39 mnemonics (erg-vanity-bip/src/bip39.rs), at the program's sizes
\* ---------------------------------------------------------------------

\* Bits per word index and words in the list.
WORD_BITS == 11
WORD_COUNT == 2048

\* WORDLIST: the static 2048-entry table; the word at an index.
WORDLIST(index) == << "word", index >>

\* WORDLIST.iter().position(|w| w == word)
WordPosition(word) ==
  LET found == { index \in 0 .. (WORD_COUNT - 1) : WORDLIST(index) = word }
  IN  IF found = {} THEN None
      ELSE << CHOOSE index \in found : \A other \in found : index <= other >>

\* MnemonicType of an entropy length in bytes (lines 70-77) and of a word
\* count (lines 146-153); entropy_bits, checksum_bits, word_count.
MnemonicTypes ==
  { [ entropy_bytes |-> 16, word_count |-> 12 ],
    [ entropy_bytes |-> 20, word_count |-> 15 ],
    [ entropy_bytes |-> 24, word_count |-> 18 ],
    [ entropy_bytes |-> 28, word_count |-> 21 ],
    [ entropy_bytes |-> 32, word_count |-> 24 ] }
entropy_bits(mtype) == mtype.entropy_bytes * 8
checksum_bits(mtype) == entropy_bits(mtype) \div 32

RECURSIVE Sha256Mix(_, _)
Sha256Mix(bytes, acc) ==
  IF bytes = << >> THEN acc
  ELSE Sha256Mix(Tail(bytes), (acc * 31 + Head(bytes) + 7) % 256)

\* sha256::digest: a fixed function of the bytes whose result is 32 bytes;
\* s_in.oracle selects the function.
sha256_digest(data) ==
  [ k \in 1 .. 32 |-> Sha256Mix(data, (s_in.oracle + 5 * k) % 256) ]

\* (byte >> i) & 1
BitOf(value, i) == (value \div (2 ^ i)) % 2

\* lines 89-93: the bits of the entropy, most significant first
EntropyBits(entropy) ==
  [ k \in 1 .. (8 * Len(entropy)) |->
      BitOf(entropy[((k - 1) \div 8) + 1], 7 - ((k - 1) % 8)) ]

\* lines 96-100 and 181-186: the first n bits of the hash
HashBits(hash, n) ==
  [ k \in 1 .. n |-> BitOf(hash[((k - 1) \div 8) + 1], 7 - ((k - 1) % 8)) ]

\* lines 104-108: the index a chunk of 11 bits spells
ChunkIndex(chunk) ==
  SumSeq([ j \in 1 .. Len(chunk) |-> chunk[j] * 2 ^ (Len(chunk) - j) ])

\* Variant: the checksum is taken from the low bits of the hash byte.
bip39_entropy_to_mnemonic_low_bits(entropy) ==
  IF \A mtype \in MnemonicTypes : mtype.entropy_bytes # Len(entropy)
    THEN << "Err", "invalid entropy length" >>
  ELSE
    LET mtype == CHOOSE t \in MnemonicTypes : t.entropy_bytes = Len(entropy)
        hash == sha256_digest(entropy)
        bits == EntropyBits(entropy) \o
                  [ k \in 1 .. checksum_bits(mtype) |-> BitOf(hash[1], k - 1) ]
    IN  << "Ok", [ w \in 1 .. (Len(bits) \div WORD_BITS) |->
                     WORDLIST(ChunkIndex(SubSeq(bits, WORD_BITS * (w - 1) + 1,
                                                WORD_BITS * w))) ] >>

\* entropy_to_mnemonic (lines 69-113).  The String of words joined by single
\* spaces is given as the sequence of the words.
bip39_entropy_to_mnemonic(entropy) ==
  IF \A mtype \in MnemonicTypes : mtype.entropy_bytes # Len(entropy)
    THEN << "Err", "invalid entropy length" >>
  ELSE
    LET mtype == CHOOSE t \in MnemonicTypes : t.entropy_bytes = Len(entropy)
        hash == sha256_digest(entropy)
        bits == EntropyBits(entropy) \o HashBits(hash, checksum_bits(mtype))
    IN  << "Ok", [ w \in 1 .. (Len(bits) \div WORD_BITS) |->
                     WORDLIST(ChunkIndex(SubSeq(bits, WORD_BITS * (w - 1) + 1,
                                                WORD_BITS * w))) ] >>

\* lines 162-176 of validate_mnemonic: the bits of the word indices and the
\* entropy bytes they hold
IndexBits11(indices) ==
  [ k \in 1 .. (WORD_BITS * Len(indices)) |->
      BitOf(indices[((k - 1) \div WORD_BITS) + 1],
            WORD_BITS - 1 - ((k - 1) % WORD_BITS)) ]

BytesOfBits(bits, n) ==
  [ i \in 1 .. n |->
      SumSeq([ j \in 1 .. 8 |-> bits[8 * (i - 1) + j] * 2 ^ (8 - j) ]) ]

\* validate_mnemonic (lines 142-195) on the words split_whitespace yields
bip39_validate_mnemonic(words) ==
  LET positions == [ k \in DOMAIN words |-> WordPosition(words[k]) ]
  IN  IF \A mtype \in MnemonicTypes : mtype.word_count # Len(words) THEN FALSE
      ELSE IF \E k \in DOMAIN words : positions[k] = None THEN FALSE
      ELSE
        LET mtype == CHOOSE t \in MnemonicTypes : t.word_count = Len(words)
            indices == [ k \in DOMAIN words |-> positions[k][1] ]
            bits == IndexBits11(indices)
            entropy == BytesOfBits(bits, mtype.entropy_bytes)
            hash == sha256_digest(entropy)
            expected_checksum == HashBits(hash, checksum_bits(mtype))
            actual_checksum == SubSeq(bits, entropy_bits(mtype) + 1, Len(bits))
        IN  expected_checksum = actual_checksum

\* Entropies: the five lengths and their neighbours; the first and the last
\* byte and the filling between them from bytes with low and high bits set.
EntropyLengths == { 0, 15, 16, 17, 20, 24, 28, 31, 32, 33 }
ByteSamples == { 0, 1, 127, 128, 255 }
Bip39Entropies ==
  UNION { { [ k \in 1 .. n |-> IF k = 1 THEN first
                               ELSE IF k = n THEN last ELSE fill ] :
              first \in ByteSamples, last \in ByteSamples,
              fill \in { 0, 127 } } : n \in EntropyLengths }

Bip39Init ==
  /\ s_pc = "entropy"
  /\ s_in \in [ oracle : 0 .. 1, entropy : Bip39Entropies ]
  /\ s_out = << >>
  /\ OrchIdle
  /\ PipeIdle
  /\ CpuIdle

\* entropy_to_mnemonic(&entropy)
EntropyToMnemonic ==
  /\ s_pc = "entropy"
  /\ s_out' = [ mnemonic |-> bip39_entropy_to_mnemonic(s_in.entropy),
                valid |-> None ]
  /\ s_pc' = "mnemonic"
  /\ UNCHANGED << s_in, ovars, hvars, pvars, cvars >>

\* validate_mnemonic(&mnemonic) on the result (test_roundtrip)
ValidateMnemonic ==
  /\ s_pc = "mnemonic"
  /\ s_out.mnemonic[1] = "Ok"
  /\ s_out' = [ s_out EXCEPT
                  !.valid = << bip39_validate_mnemonic(s_out.mnemonic[2]) >> ]
  /\ s_pc' = "validated"
  /\ UNCHANGED << s_in, ovars, hvars, pvars, cvars >>

Bip39Next == EntropyToMnemonic \/ ValidateMnemonic

Bip39Spec == Bip39Init /\ [][Bip39Next]_vars

\* ---------------------------------------------------------------------
\* Base58: the host encoder (erg-vanity-crypto/src/base58.rs) and the
\* device prefix check (kernels/base58.cl)
\* ---------------------------------------------------------------------

\* bytes of an address payload (the program uses 38)
PayloadLen == 3
\* longest prefix tried (the program allows 32)
MaxPrefixLen == 2

\* ALPHABET (base58.rs:8)
ALPHABET ==
  << "1", "2", "3", "4", "5", "6", "7", "8", "9", "A", "B", "C", "D", "E",
     "F", "G", "H", "J", "K", "L", "M", "N", "P", "Q", "R", "S", "T", "U",
     "V", "W", "X", "Y", "Z", "a", "b", "c", "d", "e", "f", "g", "h", "i",
     "j", "k", "m", "n", "o", "p", "q", "r", "s", "t", "u", "v", "w", "x",
     "y", "z" >>

\* data.iter().take_while(|b| b == 0).count()
RECURSIVE LeadingZeros(_)
LeadingZeros(data) ==
  IF data = << >> \/ Head(data) # 0 THEN 0 ELSE 1 + LeadingZeros(Tail(data))

\* lines 25-29 of encode: one byte carried through the digits of buf from
\* the last to the first; what is left of the carry is dropped.
RECURSIVE CarryThrough(_, _, _)
CarryThrough(buf, k, carry) ==
  IF k = 0 THEN buf
  ELSE LET c == carry + buf[k] * 256
       IN  CarryThrough([buf EXCEPT ![k] = c % 58], k - 1, c \div 58)

\* lines 23-30 of encode: the loop over the bytes
RECURSIVE ConvertBytes(_, _)
ConvertBytes(data, buf) ==
  IF data = << >> THEN buf
  ELSE ConvertBytes(Tail(data), CarryThrough(buf, Len(buf), Head(data)))

\* Variant: a leading zero byte gives no '1'.
encode_no_leading_ones(data) ==
  IF data = << >> THEN << >>
  ELSE
    LET size == ((Len(data) * 138) \div 100) + 1
        buf == ConvertBytes(data, [ k \in 1 .. size |-> 0 ])
        first_non_zero == LeadingZeros(buf)
    IN  [ k \in 1 .. (size - first_non_zero) |->
            ALPHABET[buf[first_non_zero + k] + 1] ]

\* encode (base58.rs:11-50)
encode(data) ==
  IF data = << >> THEN << >>
  ELSE
    LET leading_zeros == LeadingZeros(data)
        size == ((Len(data) * 138) \div 100) + 1
        buf == ConvertBytes(data, [ k \in 1 .. size |-> 0 ])
        first_non_zero == LeadingZeros(buf)
    IN  [ k \in 1 .. leading_zeros |-> "1" ] \o
        [ k \in 1 .. (size - first_non_zero) |->
            ALPHABET[buf[first_non_zero + k] + 1] ]

\* One long division of a big-endian byte string by 58, from its top byte
\* down: the quotient bytes and the remainder.
RECURSIVE DivideBy58(_, _, _)
DivideBy58(bytes, quotient, remainder) ==
  IF bytes = << >> THEN [ quotient |-> quotient, remainder |-> remainder ]
  ELSE LET acc == remainder * 256 + Head(bytes)
       IN  DivideBy58(Tail(bytes), Append(quotient, acc \div 58), acc % 58)

\* The Base58 digits of a byte string without leading zero bytes, most
\* significant first, by repeated long division.
RECURSIVE DigitsBy58(_, _)
DigitsBy58(bytes, digits) ==
  IF \A k \in DOMAIN bytes : bytes[k] = 0 THEN digits
  ELSE LET d == DivideBy58(bytes, << >>, 0)
       IN  DigitsBy58(d.quotient, << d.remainder >> \o digits)

\* base58_starts_with (kernels/base58.cl): a '1' per leading zero byte, then
\* the leading digits of the rest, compared with the prefix character by
\* character, both sides lowercased when ignore_case.
base58_starts_with(payload, prefix, ignore_case) ==
  LET zeros == LeadingZeros(payload)
      digits == DigitsBy58(SubSeq(payload, zeros + 1, Len(payload)), << >>)
      chars == [ k \in 1 .. zeros |-> "1" ] \o
               [ k \in DOMAIN digits |-> ALPHABET[digits[k] + 1] ]
  IN  /\ Len(prefix) <= Len(chars)
      /\ \A k \in DOMAIN prefix :
           IF ignore_case
             THEN to_ascii_lowercase(chars[k]) = to_ascii_lowercase(prefix[k])
             ELSE chars[k] = prefix[k]

\* Payload bytes and prefix characters tried.
PayloadBytes == { 0, 1, 57, 58, 120, 255 }
PrefixChars == { "1", "2", "9", "A", "a", "z" }

Base58Init ==
  /\ s_pc = "payload"
  /\ s_in \in [ payload : [ 1 .. PayloadLen -> PayloadBytes ],
                prefix : SeqsUpTo(PrefixChars, MaxPrefixLen) \ { << >> },
                ignore_case : BOOLEAN ]
  /\ s_out = << >>
  /\ OrchIdle
  /\ PipeIdle
  /\ CpuIdle

\* base58_fast_vs_generic_test: the device check and the full encoding of
\* one payload.
Base58Check ==
  /\ s_pc = "payload"
  /\ s_out' = [ fast |-> base58_starts_with(s_in.payload, s_in.prefix,
                                            s_in.ignore_case),
                address |-> encode(s_in.payload) ]
  /\ s_pc' = "checked"
  /\ UNCHANGED << s_in, ovars, hvars, pvars, cvars >>

Base58Spec == Base58Init /\ [][Base58Check]_vars

\* ---------------------------------------------------------------------
\* Debug formatting of GeneratedAddress (erg-vanity-cpu/src/generator.rs)
\* ---------------------------------------------------------------------

\* words of a mnemonic (the program uses 24)
MnemonicWords == 2
\* bytes of a private key in a GeneratedAddress (the program uses 32)
PrivateKeyLen == 2

\* debug_struct("GeneratedAddress").field("address", ..): the text before
\* the address
DebugHead ==
  << "G", "e", "n", "e", "r", "a", "t", "e", "d", "A", "d", "d", "r", "e",
     "s", "s", " ", "{", " ", "a", "d", "d", "r", "e", "s", "s", ":", " " >>

\* .field("mnemonic", &"<redacted>").field("private_key", &"<redacted>")
\* .finish(): the text after the address
DebugTail ==
  << ",", " ", "m", "n", "e", "m", "o", "n", "i", "c", ":", " ", "\"", "<",
     "r", "e", "d", "a", "c", "t", "e", "d", ">", "\"", ",", " ", "p", "r",
     "i", "v", "a", "t", "e", "_", "k", "e", "y", ":", " ", "\"", "<", "r",
     "e", "d", "a", "c", "t", "e", "d", ">", "\"", " ", "}" >>

\* Debug of a String of Base58 characters: the text in double quotes
DebugStr(text) == << "\"" >> \o text \o << "\"" >>

\* Variant: the mnemonic field is formatted from the value.
fmt_debug_prints_mnemonic(ga) ==
  DebugHead \o DebugStr(ga.address) \o << ",", " " >> \o
  ga.mnemonic[1] \o DebugTail

\* impl fmt::Debug for GeneratedAddress (lines 26-34)
fmt_debug(ga) == DebugHead \o DebugStr(ga.address) \o DebugTail

\* Words of the BIP39 list a mnemonic is made of here.
WordSamples ==
  { << "a", "b", "a", "n", "d", "o", "n" >>, << "a", "c", "t" >>,
    << "a", "d", "d", "r", "e", "s", "s" >> }

\* Bytes of a private key, each named by the character with that code, or
\* by its value when it is no printable character.
KeyByteSamples == { "d", "0x00" }

GeneratedAddresses ==
  [ address : { << "9", "e", "A", "x" >>, << "9", "f", "a", "c", "t" >> },
    mnemonic : [ 1 .. MnemonicWords -> WordSamples ],
    private_key : [ 1 .. PrivateKeyLen -> KeyByteSamples ] ]

\* Two values are formatted.
DebugInit ==
  /\ s_pc = "values"
  /\ s_in \in [ a : GeneratedAddresses, b : GeneratedAddresses ]
  /\ s_out = << >>
  /\ OrchIdle
  /\ PipeIdle
  /\ CpuIdle

\* format!("{:?}", value) of both
DebugFormat ==
  /\ s_pc = "values"
  /\ s_out' = [ a |-> fmt_debug(s_in.a), b |-> fmt_debug(s_in.b) ]
  /\ s_pc' = "formatted"
  /\ UNCHANGED << s_in, ovars, hvars, pvars, cvars >>

DebugSpec == DebugInit /\ [][DebugFormat]_vars

(***************************************************************************)
(* secp256k1 field and scalar arithmetic on limbs.  The limb layout, the   *)
(* carry / borrow chains and the reductions are those of the program; the  *)
(* limbs are LimbBits wide instead of 64 bits, and the moduli have the     *)
(* program's shape at that width: p = 2^(4w) - 2^ReduceShift - ReduceConst *)
(* with all upper limbs full, n with limbs F, E below the top.             *)
(***************************************************************************)
LimbBits == 4
LimbBase == 2 ^ LimbBits
\* u128: two limbs wide
WideBase == LimbBase * LimbBase
\* Limb arrays are tuples: limb i of the program is element i + 1.
LimbIdx == 1 .. 4

L4(l0, l1, l2, l3) == << l0, l1, l2, l3 >>

\* 2^256 = 2^32 + 977 (mod p): here 2^16 = 2^3 + 7 (mod 65521)
ReduceShift == 3
ReduceConst == 7

\* const P: [u64; 4], little-endian
P == L4(1, 15, 15, 15)
\* const P_MINUS_2
P_MINUS_2 == L4(15, 14, 15, 15)
\* const N: [u64; 4]
N == L4(3, 11, 14, 15)

ZERO == L4(0, 0, 0, 0)
ONE == L4(1, 0, 0, 0)

\* The call panicked (index out of bounds): no value.
Panicked == L4(0 - 1, 0 - 1, 0 - 1, 0 - 1)

\* u64::overflowing_add / carrying_add / overflowing_sub / borrowing_sub
carrying_add(x, y, c) ==
  [ r |-> (x + y + c) % LimbBase, c |-> IF x + y + c >= LimbBase THEN 1 ELSE 0 ]

overflowing_add(x, y) == carrying_add(x, y, 0)

borrowing_sub(x, y, b) ==
  [ r |-> (x - y - b + 2 * LimbBase) % LimbBase,
    c |-> IF x < y + b THEN 1 ELSE 0 ]

overflowing_sub(x, y) == borrowing_sub(x, y, 0)

\* The four-limb carry chain shared by add, add_p and add_n.
AddChain(a, b) ==
  LET s0 == overflowing_add(a[1], b[1])
      s1 == carrying_add(a[2], b[2], s0.c)
      s2 == carrying_add(a[3], b[3], s1.c)
      s3 == carrying_add(a[4], b[4], s2.c)
  IN [ limbs |-> L4(s0.r, s1.r, s2.r, s3.r), c3 |-> s3.c ]

\* The four-limb borrow chain shared by sub, neg, sub_p and sub_n.
SubChain(a, b) ==
  LET s0 == overflowing_sub(a[1], b[1])
      s1 == borrowing_sub(a[2], b[2], s0.c)
      s2 == borrowing_sub(a[3], b[3], s1.c)
      s3 == borrowing_sub(a[4], b[4], s2.c)
  IN [ limbs |-> L4(s0.r, s1.r, s2.r, s3.r), b3 |-> s3.c ]

\* gte_p / gte_n: for i in (0..4).rev() { > => true; < => false }; true
RECURSIVE GteFrom(_, _, _)
GteFrom(a, m, i) ==
  IF i < 0 THEN TRUE
  ELSE IF a[i + 1] > m[i + 1] THEN TRUE
  ELSE IF a[i + 1] < m[i + 1] THEN FALSE
  ELSE GteFrom(a, m, i - 1)

gte_p(a) == GteFrom(a, P, 3)
gte_n(a) == GteFrom(a, N, 3)
sub_p(a) == SubChain(a, P).limbs
sub_n(a) == SubChain(a, N).limbs
add_p(a) == AddChain(a, P).limbs
add_n(a) == AddChain(a, N).limbs
is_zero(a) == a[1] = 0 /\ a[2] = 0 /\ a[3] = 0 /\ a[4] = 0

\* Variant: the carry out of the top limb is not looked at.
FieldElement_add_ignores_carry(a, b) ==
  LET s == AddChain(a, b)
  IN IF gte_p(s.limbs) THEN sub_p(s.limbs) ELSE s.limbs

\* FieldElement::add: if c3 || result.gte_p() { result = result.sub_p() }
FieldElement_add(a, b) ==
  LET s == AddChain(a, b)
  IN IF s.c3 = 1 \/ gte_p(s.limbs) THEN sub_p(s.limbs) ELSE s.limbs

\* FieldElement::sub: if b3 { result = result.add_p() }
FieldElement_sub(a, b) ==
  LET s == SubChain(a, b)
  IN IF s.b3 = 1 THEN add_p(s.limbs) ELSE s.limbs

\* FieldElement::neg
FieldElement_neg(a) == IF is_zero(a) THEN a ELSE SubChain(P, a).limbs

\* Spill carry into following limbs: while carry != 0 { wide[k] += carry }
RECURSIVE Spill(_, _, _)
Spill(wide, carry, k) ==
  IF carry = 0 THEN [ wide |-> wide, panic |-> FALSE ]
  ELSE IF k >= 8 THEN [ wide |-> wide, panic |-> TRUE ]
  ELSE LET acc == (wide[k + 1] + carry) % WideBase
       IN Spill([wide EXCEPT ![k + 1] = acc % LimbBase], acc \div LimbBase, k + 1)

\* for j in 0..4: 64x64 -> 128 product accumulated into wide[i + j]
RECURSIVE MulRow(_, _, _, _, _, _)
MulRow(a, b, i, j, wide, carry) ==
  IF j = 4 THEN Spill(wide, carry, i + 4)
  ELSE LET idx == i + j
           prod == a[i + 1] * b[j + 1]
           lo == prod % LimbBase
           hi == prod \div LimbBase
           acc == (wide[idx + 1] + lo + carry) % WideBase
       IN MulRow(a, b, i, j + 1, [wide EXCEPT ![idx + 1] = acc % LimbBase],
                 ((acc \div LimbBase) + hi) % WideBase)

\* for i in 0..4: the 512-bit product as 8 limbs
RECURSIVE MulRows(_, _, _, _)
MulRows(a, b, i, wide) ==
  IF i = 4 THEN [ wide |-> wide, panic |-> FALSE ]
  ELSE LET row == MulRow(a, b, i, 0, wide, 0)
       IN IF row.panic THEN row ELSE MulRows(a, b, i + 1, row.wide)

WideMul(a, b) == MulRows(a, b, 0, << 0, 0, 0, 0, 0, 0, 0, 0 >>)

\* Propagate carries: for i in 0..5 { carry += acc[i]; result[i] = carry as
\* u64; carry >>= 64 }
RECURSIVE Propagate(_, _, _, _)
Propagate(acc, i, carry, result) ==
  IF i = 5 THEN result
  ELSE LET c == (carry + acc[i + 1]) % WideBase
       IN Propagate(acc, i + 1, c \div LimbBase,
                    [result EXCEPT ![i + 1] = c % LimbBase])

\* while result[4] != 0: fold the overflow limb back in
RECURSIVE ReduceAgain(_)
ReduceAgain(result) ==
  IF result[5] = 0 THEN result
  ELSE LET overflow == result[5]
           c0 == (result[1] + overflow * ReduceConst
                  + overflow * (2 ^ ReduceShift)) % WideBase
           c1 == (c0 \div LimbBase) + result[2]
           c2 == (c1 \div LimbBase) + result[3]
           c3 == (c2 \div LimbBase) + result[4]
       IN ReduceAgain(<< c0 % LimbBase, c1 % LimbBase, c2 % LimbBase,
                         c3 % LimbBase, c3 \div LimbBase >>)

\* while fe.gte_p() { fe = fe.sub_p() }
RECURSIVE FinalReduce(_)
FinalReduce(fe) == IF gte_p(fe) THEN FinalReduce(sub_p(fe)) ELSE fe

\* FieldElement::reduce: low half + high half * (2^32 + 977)
reduce(wide) ==
  LET Acc(i) == (wide[i + 1] + wide[4 + i + 1] * ReduceConst
                 + wide[4 + i + 1] * (2 ^ ReduceShift)) % WideBase
      acc == << Acc(0), Acc(1), Acc(2), Acc(3), 0 >>
      result == ReduceAgain(Propagate(acc, 0, 0, << 0, 0, 0, 0, 0 >>))
  IN FinalReduce(L4(result[1], result[2], result[3], result[4]))

\* FieldElement::mul
FieldElement_mul(a, b) ==
  LET w == WideMul(a, b)
  IN IF w.panic THEN Panicked ELSE reduce(w.wide)

\* FieldElement::square
FieldElement_square(a) == FieldElement_mul(a, a)

\* FieldElement::pow: for each limb of exp, for bit in 0..64: multiply when
\* the bit is set, then square the base.  k counts the bits from the lowest.
\* (The tests on result and base make the evaluation strict.)
RECURSIVE PowFrom(_, _, _, _)
PowFrom(result, base, exp, k) ==
  IF k = 4 * LimbBits \/ result = Panicked \/ base = Panicked THEN result
  ELSE LET limb == exp[(k \div LimbBits) + 1]
           bit == k % LimbBits
           r == IF (limb \div (2 ^ bit)) % 2 = 1
                  THEN FieldElement_mul(result, base) ELSE result
       IN PowFrom(r, FieldElement_square(base), exp, k + 1)

FieldElement_pow(a, exp) == PowFrom(ONE, a, exp, 0)

\* FieldElement::inv: None for zero, else self^(p-2)
FieldElement_inv(a) ==
  IF is_zero(a) THEN None ELSE << FieldElement_pow(a, P_MINUS_2) >>

\* Scalar::add
Scalar_add(a, b) ==
  LET s == AddChain(a, b)
  IN IF s.c3 = 1 \/ gte_n(s.limbs) THEN sub_n(s.limbs) ELSE s.limbs

\* Scalar::sub
Scalar_sub(a, b) ==
  LET s == SubChain(a, b)
  IN IF s.b3 = 1 THEN add_n(s.limbs) ELSE s.limbs

\* Scalar::neg
Scalar_neg(a) == IF is_zero(a) THEN a ELSE SubChain(N, a).limbs

\* Scalar::reduce_wide: rem = (rem * 2 + bit) mod n from the top bit down;
\* k counts the bits still to be processed.  (The test on rem makes the
\* evaluation strict: each round is computed before the next one starts.)
RECURSIVE ReduceWideFrom(_, _, _)
ReduceWideFrom(wide, k, rem) ==
  IF k = 0 \/ rem = Panicked THEN rem
  ELSE LET limb == wide[((k - 1) \div LimbBits) + 1]
           bit_idx == (k - 1) % LimbBits
           doubled == Scalar_add(rem, rem)
           r == IF (limb \div (2 ^ bit_idx)) % 2 = 1
                  THEN Scalar_add(doubled, ONE) ELSE doubled
       IN ReduceWideFrom(wide, k - 1, r)

reduce_wide(wide) == ReduceWideFrom(wide, 8 * LimbBits, ZERO)

\* Scalar::mul
Scalar_mul(a, b) ==
  LET w == WideMul(a, b)
  IN IF w.panic THEN Panicked ELSE reduce_wide(w.wide)

\* Scalar::square
Scalar_square(a) == Scalar_mul(a, a)

\* from_limbs of the limbs of an integer below 2^(4w)
FromInt(v) ==
  L4(v % LimbBase, (v \div LimbBase) % LimbBase,
     (v \div (LimbBase ^ 2)) % LimbBase, (v \div (LimbBase ^ 3)) % LimbBase)

\* The integer a limb array stands for.
LimbValue(a) ==
  a[1] + LimbBase * (a[2] + LimbBase * (a[3] + LimbBase * a[4]))

FieldPrime == LimbValue(P)
CurveOrderN == LimbValue(N)

\* Operands: both ends of the range, the limb boundaries, values whose sum
\* carries out of the top limb, values whose difference borrows and a
\* product (13107 * 32768) that reduce has to fold twice.
FieldSamples == { 0, 1, 2, 15, 16, 255, 256, 13107, 32767, 32768, 65280,
                  FieldPrime - 2, FieldPrime - 1 }
ScalarSamples == { 0, 1, 2, 15, 16, 255, 256, 32767, 32768, 65024,
                   CurveOrderN - 2, CurveOrderN - 1 }
\* Exponents (any four limbs)
ExpSamples == { 0, 1, 2, 3, 32768, FieldPrime - 2, 65535 }

FieldOps == { "add", "sub", "neg", "mul", "square", "pow", "inv" }
ScalarOps == { "add", "sub", "neg", "mul", "square" }

ArithInit ==
  /\ s_pc = "operands"
  /\ s_in \in [ kind : {"field"}, a : FieldSamples, b : FieldSamples,
                exp : ExpSamples ]
         \cup [ kind : {"scalar"}, a : ScalarSamples, b : ScalarSamples,
                exp : {0} ]
  /\ s_out = [ op |-> "none", r |-> None ]
  /\ OrchIdle
  /\ PipeIdle
  /\ CpuIdle

\* One FieldElement operation on the operands; r is the Option returned by
\* inv and Some(value) for the others.
FieldApply(op) ==
  /\ s_pc = "operands"
  /\ s_in.kind = "field"
  /\ LET a == FromInt(s_in.a)
         b == FromInt(s_in.b)
     IN s_out' =
          [ op |-> op,
            r  |-> CASE op = "add"    -> << FieldElement_add(a, b) >>
                     [] op = "sub"    -> << FieldElement_sub(a, b) >>
                     [] op = "neg"    -> << FieldElement_neg(a) >>
                     [] op = "mul"    -> << FieldElement_mul(a, b) >>
                     [] op = "square" -> << FieldElement_square(a) >>
                     [] op = "pow"    ->
                          << FieldElement_pow(a, FromInt(s_in.exp)) >>
                     [] op = "inv"    -> FieldElement_inv(a) ]
  /\ s_pc' = "field"
  /\ UNCHANGED << s_in, ovars, hvars, pvars, cvars >>

\* One Scalar operation on the operands.
ScalarApply(op) ==
  /\ s_pc = "operands"
  /\ s_in.kind = "scalar"
  /\ LET a == FromInt(s_in.a)
         b == FromInt(s_in.b)
     IN s_out' =
          [ op |-> op,
            r  |-> CASE op = "add"    -> << Scalar_add(a, b) >>
                     [] op = "sub"    -> << Scalar_sub(a, b) >>
                     [] op = "neg"    -> << Scalar_neg(a) >>
                     [] op = "mul"    -> << Scalar_mul(a, b) >>
                     [] op = "square" -> << Scalar_square(a) >> ]
  /\ s_pc' = "scalar"
  /\ UNCHANGED << s_in, ovars, hvars, pvars, cvars >>

ArithNext ==
  \/ \E op \in FieldOps : FieldApply(op)
  \/ \E op \in ScalarOps : ScalarApply(op)

ArithSpec == ArithInit /\ [][ArithNext]_vars

\* Fairness of the OS scheduler: every thread that can take a step
\* eventually takes one (the coordinator wakes up at least every 200 ms, a
\* batch terminates, the deadline sleep ends).
FairSpec ==
  /\ OrchInitWith(MaxFairBatches)
  /\ [][Next]_vars
  /\ \A w \in Devices : WF_vars(Worker(w))
  /\ WF_vars(Coordinator)
  /\ WF_vars(DeadlineFire)

(***************************************************************************)
(* Claims about MultiGpuRunner::run                                        *)
(***************************************************************************)
\* The (salt, counter) candidates of a claimed window.
WindowCandidates(cl) ==
  { Entropy(salt, (cl.start + g) % Modulus) : g \in WorkItems }

\* C1: as long as the shared counter has not wrapped, the windows claimed by
\* any two batches (of the same or of different workers) are disjoint, so no
\* (salt, counter) candidate is processed twice in a run.
C1_WindowsDisjoint ==
  \A i, j \in DOMAIN claimed :
    (i < j /\ ~claimed[j].wrapped) =>
      /\ WindowCandidates(claimed[i]) \cap WindowCandidates(claimed[j]) = {}
      /\ claimed[j].start >= claimed[i].start + BatchSize

\* C1 witness: three windows claimed without wrap, by both workers, one
\* worker having claimed two of them.
C1_Witness ==
  /\ Len(claimed) >= 3
  /\ ~claimed[Len(claimed)].wrapped
  /\ \E i, j, k \in DOMAIN claimed :
       /\ i # j
       /\ claimed[i].worker = claimed[j].worker
       /\ claimed[k].worker # claimed[i].worker

\* C2: the coordinator prints at most max_results matches, numbered
\* 1..results_found without gaps; stop is set as soon as results_found
\* reaches max_results; a Hit received after that is discarded.
C2_AtMostMaxResults ==
  /\ results_found <= max_results
  /\ results_found = Min(hitsReceived, max_results)
  /\ Len(printed) = results_found
  /\ \A k \in DOMAIN printed : printed[k].match_num = k
  /\ (results_found >= max_results => stop)

\* C2 witness: more hits were received than may be printed, from two devices.
C2_Witness ==
  /\ max_results = 2
  /\ hitsReceived > max_results
  /\ Len(printed) = 2
  /\ printed[1].device_index # printed[2].device_index

\* C3: after stop has become true a worker claims at most one more window,
\* and a worker that is at its loop head or has left the loop has sent every
\* result of the batches it started.
C3_OneBatchLatency ==
  \A w \in Devices :
    /\ claimsAfterStop[w] <= 1
    /\ (wpc[w] \in {"check", "stats", "done"} => batch_results[w] = << >>)

\* C3 witness: a worker claimed a window although stop was already set, ran
\* that batch, sent its results and left.
C3_Witness ==
  \E w \in Devices :
    /\ claimsAfterStop[w] = 1
    /\ wpc[w] = "done"
    /\ \E k \in DOMAIN printed : printed[k].device_index = w

\* A step of the coordinator: it takes a message off the queue or moves on.
CoordStep == (chan # << >> /\ chan' = Tail(chan)) \/ cpc' # cpc

\* C4 as stated: a coordinator step taken while stop is set or all senders
\* have closed ends the receive loop.
C4_EndsOnStopOrClosed ==
  [][ (cpc = "loop" /\ (stop \/ SendersOpen = {}) /\ CoordStep)
      => cpc' # "loop" ]_vars

\* C4 amended: the receive loop ends exactly on Disconnected, that is when
\* every worker sender has closed and the queue is drained; the stop flag
\* alone never ends it.
C4_EndsOnDisconnected ==
  [][ /\ (cpc = "loop" /\ cpc' # "loop") => (SendersOpen = {} /\ chan = << >>)
      /\ (cpc = "loop" /\ SendersOpen = {} /\ chan = << >>
            /\ << cpc, results_found, dropped_hits_total, first_error >>'
                 # << cpc, results_found, dropped_hits_total, first_error >>)
           => cpc' = "join" ]_vars

\* C4 witness: the loop has ended after it went on receiving with stop set.
C4_Witness ==
  /\ cpc = "join"
  /\ stop
  /\ hitsReceived > max_results

Returned == cpc = "done"

\* C5: under fair scheduling a run with a duration limit returns, and so
\* does a run in which max_results matches were printed or a worker failed;
\* a run that found nothing and met no error returns Ok.
C5_EventuallyReturns ==
  (duration \/ results_found >= max_results \/ failed # {})
    ~> (/\ Returned
        /\ \A w \in Devices : wpc[w] = "done"
        /\ ((hitsReceived = 0 /\ failed = {}) =>
               (ret = << "Ok" >> /\ printed = << >>)))

\* C5 witness: the deadline fired, nothing was found, run returned Ok.
C5_Witness ==
  /\ Returned
  /\ duration /\ dpc = "done"
  /\ printed = << >> /\ hitsReceived = 0
  /\ failed = {}
  /\ ret = << "Ok" >>
  /\ Len(claimed) >= 2

\* C6: a failing worker sends Error and sets stop; the coordinator sets stop
\* on every Error; first_error is the first Error received and is what run
\* returns; without an Error run returns Ok.
C6_FirstErrorKept ==
  /\ first_error = IF errorsReceived = << >> THEN None
                   ELSE FormatError(errorsReceived[1])
  /\ (errorsReceived # << >> => stop)
  /\ \A w \in failed :
       /\ (wpc[w] \in {"stats", "done"} => stop)
       /\ \/ \E k \in DOMAIN chan :
               chan[k].type = "Error" /\ chan[k].device_index = w
          \/ \E k \in DOMAIN errorsReceived : errorsReceived[k].device_index = w
  /\ Returned =>
       /\ \A w \in failed :
            \E k \in DOMAIN errorsReceived : errorsReceived[k].device_index = w
       /\ ret = IF errorsReceived = << >> THEN << "Ok" >>
                ELSE << "Err", FormatError(errorsReceived[1]) >>

\* C6 witness: two workers failed, the error of device 1 arrived first and is
\* the one returned.
C6_Witness ==
  /\ Returned
  /\ Len(errorsReceived) = 2
  /\ errorsReceived[1].device_index = 1
  /\ errorsReceived[2].device_index = 0
  /\ ret = << "Err", FormatError(ErrorMsg(1, errorsReceived[1].message)) >>

Built == { w \in Devices : pipeline[w] # None }
DroppedOf == [w \in Built |-> pipeline[w][1].hits_dropped_total]

\* C7 as stated: every worker has sent exactly one Stats message when it
\* has exited.
C7_StatsAlways ==
  \A w \in Devices : wpc[w] = "done" => statsSent[w] = 1

\* C7 amended: a worker whose pipeline was built sends exactly one Stats
\* message when it exits, a worker whose pipeline construction failed sends
\* none; at the end of the receive loop the coordinator's total is the sum of
\* hits_dropped_total over the pipelines that were built.
C7_StatsOncePerPipeline ==
  /\ \A w \in Devices :
       /\ statsSent[w] <= 1
       /\ (wpc[w] = "done" => statsSent[w] = IF w \in Built THEN 1 ELSE 0)
  /\ (cpc \in {"join", "done"} =>
        dropped_hits_total = SumOver(DroppedOf, Built))

\* C7 witness: one worker never built its pipeline, the other dropped hits
\* and reported them.
C7_Witness ==
  /\ Returned
  /\ dropped_hits_total > 0
  /\ \E w \in Devices : w \notin Built /\ statsSent[w] = 0
  /\ \E w \in Built : statsSent[w] = 1 /\ pipeline[w][1].hits_dropped_total > 0

(***************************************************************************)
(* Claims about VanityPipeline::run_batch                                  *)
(***************************************************************************)
\* C8: per batch the host reads min(k, MAX_HITS) records for a raw count k,
\* and hits_dropped_total is the sum over the batches of k - min(k, MAX_HITS)
\* (so it never decreases).
C8_OverflowAccounting ==
  /\ \A b \in DOMAIN p_reads :
       p_reads[b].read >= 0 =>
         p_reads[b].read = Min(p_reads[b].raw, MAX_HITS)
  /\ p_hits_dropped_total =
       SumSeq([b \in DOMAIN p_reads |->
                 p_reads[b].raw - Min(p_reads[b].raw, MAX_HITS)])

\* C8 witness: two batches overflowed and one did not.
C8_Witness ==
  /\ Len(p_reads) = 3
  /\ p_pc = "idle"
  /\ \E a, b, c \in DOMAIN p_reads :
       /\ a # b
       /\ p_reads[a].raw > MAX_HITS /\ p_reads[a].read = MAX_HITS
       /\ p_reads[b].raw > MAX_HITS
       /\ p_reads[c].raw \in 1 .. MAX_HITS /\ p_reads[c].read = p_reads[c].raw
  /\ p_hits_dropped_total > 0

\* C9 as stated: a counter_start that was run more than once always gave
\* the same result list.
C9_SameResults ==
  \A c \in Counters : Cardinality(p_returned[c]) <= 1

\* The raw hit count of the window at c: the number of hits of its work-items.
RawCountOf(c) == SumSeq([k \in 1 .. BatchSize |->
                           Len(WorkItemHits(p_salt, c, k - 1))])

\* C9 amended: a counter_start whose batch does not overflow the hit buffer
\* always gives the same result list, whatever order the records were
\* appended in.
C9_SameResultsNoOverflow ==
  \A c \in Counters :
    RawCountOf(c) <= MAX_HITS => Cardinality(p_returned[c]) <= 1

\* C9 witness: the same window was read back in two different buffer orders
\* and gave one result list.
C9_Witness ==
  \E c \in Counters :
    /\ RawCountOf(c) <= MAX_HITS
    /\ Cardinality(p_buffers[c]) >= 2
    /\ Cardinality(p_returned[c]) = 1

(***************************************************************************)
(* Claims about sort_results_deterministically                             *)
(***************************************************************************)
SortKey(r) == << r.address_index, r.pattern_index, r.work_item_id >>

LexLeq(x, y) ==
  \/ x[1] < y[1]
  \/ (x[1] = y[1] /\ x[2] < y[2])
  \/ (x[1] = y[1] /\ x[2] = y[2] /\ x[3] <= y[3])

NonDecreasing(s) ==
  \A i, j \in DOMAIN s : i < j => LexLeq(SortKey(s[i]), SortKey(s[j]))

Occurrences(s, r) == Cardinality({ k \in DOMAIN s : s[k] = r })

IsPermutation(s, t) ==
  /\ Len(s) = Len(t)
  /\ \A k \in DOMAIN s : Occurrences(s, s[k]) = Occurrences(t, s[k])

\* The records of s that pass verify_hit with the configured patterns, as
\* a set of positions.
VerifiedPositions(s) ==
  { k \in DOMAIN s :
      verify_hit(CfgPatterns, CfgIgnoreCase, s[k]) = << "Ok", << VanityResult(s[k]) >> >> }

\* C10: sort_results_deterministically returns a permutation of its input in
\* non-decreasing order of (address_index, pattern_index, work_item_id), and
\* run_batch returns the verified records it read in that order.
C10_SortedPermutation ==
  /\ s_pc = "sorted" => (IsPermutation(s_out, s_in) /\ NonDecreasing(s_out))
  /\ s_pc = "batched" =>
       LET read == Prefix(s_in, MAX_HITS) IN
         /\ NonDecreasing(s_out)
         /\ Len(s_out) = Cardinality(VerifiedPositions(read))
         /\ \A k \in VerifiedPositions(read) :
              Occurrences(s_out, VanityResult(read[k]))
                = Occurrences(read, read[k])

\* C10 witness: a list of three records with a tie on (address_index,
\* pattern_index) that arrived out of order and was put in order.
C10_Witness ==
  /\ s_pc = "sorted"
  /\ Len(s_in) = 3
  /\ s_out # s_in
  /\ \E i, j \in DOMAIN s_in :
       /\ i < j
       /\ s_in[i].address_index = s_in[j].address_index
       /\ s_in[i].pattern_index = s_in[j].pattern_index
       /\ s_in[i].work_item_id > s_in[j].work_item_id

\* The (salt, counter) candidates worker w has claimed so far.
CandidatesOf(w) ==
  UNION { WindowCandidates(claimed[k]) :
            k \in { n \in DOMAIN claimed : claimed[n].worker = w } }

\* Every printed match names the device whose worker claimed its candidate.
PrintedByProducer ==
  \A k \in DOMAIN printed :
    /\ printed[k].device_index \in Devices
    /\ printed[k].result.entropy \in CandidatesOf(printed[k].device_index)

\* C12 as stated: any two printed matches differ in (device, entropy), and
\* each carries the index of the device that produced it.
C12_DistinctDeviceEntropy ==
  /\ PrintedByProducer
  /\ ~wrapped =>
       \A i, j \in DOMAIN printed :
         i < j => << printed[i].device_index, printed[i].result.entropy >>
                    # << printed[j].device_index, printed[j].result.entropy >>

\* C12 (amended): any two printed matches differ in (device, entropy,
\* address_index, pattern_index) as long as the shared counter has not
\* wrapped, and each carries the index of the device that produced it.
C12_DistinctMatches ==
  /\ PrintedByProducer
  /\ ~wrapped =>
       \A i, j \in DOMAIN printed :
         i < j =>
           << printed[i].device_index, printed[i].result.entropy,
              printed[i].result.address_index, printed[i].result.pattern_index >>
             # << printed[j].device_index, printed[j].result.entropy,
                  printed[j].result.address_index, printed[j].result.pattern_index >>

\* C12 witness: two matches of the same seed were printed for device 1, at
\* different address indices or patterns.
C12_Witness ==
  /\ Len(printed) = 2
  /\ ~wrapped
  /\ printed[1].device_index = 1
  /\ printed[2].device_index = 1
  /\ printed[1].result.entropy = printed[2].result.entropy
  /\ printed[1].result # printed[2].result

\* C13: a pipeline's addresses_checked is batch_size x num_indices times the
\* number of its batches whose kernel finished, and the shared total is
\* batch_size x num_indices times the number of batches that returned Ok
\* (a worker between the return and its fetch_add has one still to add).
C13_AddressesChecked ==
  /\ \A w \in Built :
       pipeline[w][1].addresses_checked
         = batchesRun[w].finished * BatchSize * NumIndices
  /\ total_checked
       = (SumOver([w \in Devices |-> batchesRun[w].ok], Devices)
            - Cardinality({ w \in Devices : wpc[w] = "count" }))
         * BatchSize * NumIndices

\* C13 witness: the run is over, one worker completed two batches, the other
\* completed one and failed in its second after the kernel had finished.
C13_Witness ==
  /\ cpc = "done"
  /\ \E v, w \in Built :
       /\ batchesRun[v] = [ finished |-> 2, ok |-> 2 ]
       /\ batchesRun[w] = [ finished |-> 2, ok |-> 1 ]
  /\ total_checked = 3 * BatchSize * NumIndices

(***************************************************************************)
(* Claims about verify_hit                                                 *)
(***************************************************************************)
\* The address starts with the pattern, compared character by character
\* (ASCII case-insensitively iff icase).
PrefixAgrees(address, pattern, icase) ==
  /\ Len(pattern) <= Len(address)
  /\ \A k \in 1 .. Len(pattern) :
       IF icase
         THEN to_ascii_lowercase(address[k]) = to_ascii_lowercase(pattern[k])
         ELSE address[k] = pattern[k]

\* The record cannot be checked at all: its key derivation fails or its
\* pattern index is outside the list.
Unverifiable(h, patterns) ==
  DerivationFails(h.entropy, h.address_index) \/ h.pattern_index >= Len(patterns)

\* C11: every result run_batch returns carries the address re-derived from
\* its entropy and address_index, and that address starts with
\* patterns[pattern_index]; a record whose address does not match is dropped
\* with a warning, never fails the batch, and the other records are returned.
C11_ResultsVerified ==
  s_pc = "verified" =>
    LET read == Prefix(s_in.hits, MAX_HITS)
        Good(h) == PrefixAgrees(DerivedAddress(h.entropy, h.address_index),
                                s_in.patterns[h.pattern_index + 1],
                                s_in.ignore_case)
    IN /\ s_out.status = "Err" <=>
            \E k \in DOMAIN read : Unverifiable(read[k], s_in.patterns)
       /\ s_out.status = "Ok" =>
            /\ \A n \in DOMAIN s_out.results :
                 LET r == s_out.results[n] IN
                   /\ r.address = DerivedAddress(r.entropy, r.address_index)
                   /\ r.pattern_index < Len(s_in.patterns)
                   /\ PrefixAgrees(r.address,
                                   s_in.patterns[r.pattern_index + 1],
                                   s_in.ignore_case)
            /\ \A k \in DOMAIN read :
                 IF Good(read[k])
                   THEN Occurrences(s_out.results, VanityResult(read[k]))
                          = Occurrences(read, read[k])
                   ELSE Occurrences(s_out.warnings, read[k])
                          = Occurrences(read, read[k])
            /\ Len(s_out.results) + Len(s_out.warnings) = Len(read)

\* C11 witness: a batch with a record that did not verify and a record that
\* did, under ignore_case with a pattern that differs from the address in
\* case only; the good record was returned, the bad one warned about.
C11_Witness ==
  /\ s_pc = "verified"
  /\ s_in.ignore_case
  /\ s_in.patterns = << << "9", "E" >> >>
  /\ s_out.status = "Ok"
  /\ Len(s_out.results) = 1
  /\ Len(s_out.warnings) = 1
  /\ s_in.hits[1] = s_out.warnings[1]

(***************************************************************************)
(* Claims about validate_pattern                                           *)
(***************************************************************************)
\* The second character as the validator compares it.
SecondChar(pattern, icase) ==
  IF icase THEN to_ascii_lowercase(pattern[2]) ELSE pattern[2]

\* The conditions the specification lists for a valid pattern.
WellFormedPattern(pattern, icase) ==
  /\ pattern # << >>
  /\ \A k \in DOMAIN pattern : pattern[k] \notin NonAscii
  /\ Len(pattern) <= MAX_PATTERN_LEN
  /\ \A k \in DOMAIN pattern : pattern[k] \in BASE58_ALPHABET
  /\ pattern[1] = "9"
  /\ Len(pattern) >= 2 => SecondChar(pattern, icase) \in { "e", "f", "g", "h", "i" }

\* C14: validate_pattern returns Ok exactly for the well-formed patterns, and
\* then returns the pattern lowercased under ignore_case, unchanged otherwise.
C14_ValidatesExactly ==
  s_pc = "validated" =>
    /\ s_out[1] = "Ok" <=> WellFormedPattern(s_in.pattern, s_in.ignore_case)
    /\ s_out[1] = "Ok" =>
         /\ Len(s_out[2]) = Len(s_in.pattern)
         /\ \A k \in DOMAIN s_in.pattern :
              s_out[2][k] = IF s_in.ignore_case
                              THEN to_ascii_lowercase(s_in.pattern[k])
                              ELSE s_in.pattern[k]

\* C14 witness: "9EL" was accepted under ignore_case and came back as "9el".
C14_Witness ==
  /\ s_pc = "validated"
  /\ s_in.ignore_case
  /\ s_in.pattern = << "9", "E", "L" >>
  /\ s_out = << "Ok", << "9", "e", "l" >> >>

\* C15 as stated: without ignore_case every pattern that starts with '9' and
\* has E, F, G, H or I as its second character gets the "uppercase" error.
C15_UppercaseAlwaysTargeted ==
  (/\ s_pc = "validated"
   /\ ~s_in.ignore_case
   /\ Len(s_in.pattern) >= 2
   /\ s_in.pattern[1] = "9"
   /\ s_in.pattern[2] \in { "E", "F", "G", "H", "I" })
    => s_out = << "Err", "uppercase" >>

\* C15 (amended): without ignore_case a pattern that passes the length,
\* ASCII and Base58 tests, starts with '9' and has E, F, G or H as its second
\* character gets the "uppercase" error; with 'I' there, or with any other
\* fault the earlier tests find, it gets that earlier test's error.
C15_UppercaseTargeted ==
  (/\ s_pc = "validated"
   /\ ~s_in.ignore_case
   /\ Len(s_in.pattern) >= 2
   /\ s_in.pattern[1] = "9"
   /\ s_in.pattern[2] \in { "E", "F", "G", "H", "I" })
    => /\ s_out[1] = "Err"
       /\ s_out[2] = "uppercase" <=>
            /\ Len(s_in.pattern) <= MAX_PATTERN_LEN
            /\ \A k \in DOMAIN s_in.pattern : s_in.pattern[k] \in BASE58_ALPHABET
       /\ s_in.pattern[2] = "I" => s_out[2] \in { "too long", "non-ASCII", "invalid Base58" }

\* C15 witness: "9Ee" without ignore_case got the "uppercase" error.
C15_Witness ==
  /\ s_pc = "validated"
  /\ ~s_in.ignore_case
  /\ s_in.pattern = << "9", "E", "e" >>
  /\ s_out = << "Err", "uppercase" >>


\* ---------------------------------------------------------------------
\* Claims about main
\* ---------------------------------------------------------------------

\* The run got as far as selecting devices: no --list-devices, and either
\* --bench or arguments that pass every earlier check.
ReachesDeviceSelection(args) ==
  /\ ~args.list_devices
  /\ \/ args.bench
     \/ /\ parse_patterns(args)[1] = "Ok"
        /\ args.num_indices \in 1 .. MAX_NUM_INDICES
        /\ args.max_results # 0

\* A requested device is unavailable: no platform, no GPU, or an index that
\* is not enumerated.
DeviceUnavailable(args, env) ==
  /\ ReachesDeviceSelection(args)
  /\ parse_device_list(args.devices, env) \in
       { << "Err", "no OpenCL platforms found" >>,
         << "Err", "no OpenCL GPU devices found" >>,
         << "Err", "device index not found" >> }

\* C16: whenever a requested device is unavailable the program exits with
\* code 1, and exit code 2 is produced only for invalid arguments.
C16_UnavailableExitsOne ==
  s_pc = "exited" =>
    /\ DeviceUnavailable(s_in.args, s_in.env) => s_out = 1
    /\ s_out = 2 => ~DeviceUnavailable(s_in.args, s_in.env)

\* ---------------------------------------------------------------------
\* Claims about the CPU search
\* ---------------------------------------------------------------------

\* C17: search called with a pattern that fails Pattern::validate returns
\* at once with result = None and attempts = 0, and the step leaves the
\* shared attempt counter and the stop flag as they were.
C17_InvalidPatternReturns ==
  [][ (c_pc = "call" /\ c_pc' # "call"
       /\ PatternValidate(c_pattern)[1] = "Err")
      => /\ c_pc' = "returned"
         /\ c_result' = << SearchResult(None, 0) >>
         /\ UNCHANGED << c_stop, c_counter >> ]_vars

C17_Witness ==
  /\ c_pc = "returned"
  /\ PatternValidate(c_pattern) = << "Err", "pattern contains invalid Base58 character" >>
  /\ c_result = << SearchResult(None, 0) >>
  /\ c_hist.reserved = 0

\* C18: search_with_salt returns Some(a) only when a matches the pattern
\* and stop is true at the return; it returns None only after it has read
\* stop = true; and when stop was already true at the call it returns None
\* with attempts = 0 without having reserved a counter window.
C18_StopProtocol ==
  (c_pc = "returned" /\ c_hist.stop_at_call # None) =>
    /\ c_result[1].result # None =>
         /\ PatternMatches(c_pattern, c_result[1].result[1].address)
         /\ c_stop
    /\ c_result[1].result = None => c_hist.read_stop
    /\ c_hist.stop_at_call = << TRUE >> =>
         /\ c_result[1] = SearchResult(None, 0)
         /\ c_hist.reserved = 0

C18_Witness ==
  /\ c_pc = "returned"
  /\ c_hist.stop_at_call = << FALSE >>
  /\ c_result[1].result = None
  /\ c_hist.reserved > 0
  /\ c_setter = "done"

\* ---------------------------------------------------------------------
\* Claims about BIP32 derivation
\* ---------------------------------------------------------------------

Bip32Last == s_out.last[1]

\* The data derive_child is said to feed to the HMAC.
ChildData(priv, index) ==
  IF index >= HARDENED THEN << 0, priv, index >>
  ELSE PublicKeyFromPrivateKey(priv)[1] \o << index >>

\* C19: derive_child(ext, index) fails exactly when IL = I[0:32] >= n or
\* the child key (IL + priv) mod n is zero; in every other case it succeeds
\* with child_priv = (IL + priv) mod n and child_cc = I[32:64], I being the
\* HMAC of 0x00 || priv || be32(index) for a hardened index and of
\* compressed(priv*G) || be32(index) otherwise.
C19_DeriveChildFailsExactly ==
  (s_pc = "key" /\ s_out.last # None /\ Bip32Last.op = "derive_child") =>
    LET priv == Bip32Last.ext[1].key
        I == hmac_sha512(Bip32Last.ext[1].chain_code,
                         ChildData(priv, Bip32Last.arg))
    IN  IF I.il >= CurveOrder \/ (I.il + priv) % CurveOrder = 0
          THEN Bip32Last.result[1] = "Err"
          ELSE Bip32Last.result =
                 << "Ok", ExtendedPrivateKey((I.il + priv) % CurveOrder, I.ir) >>

\* C20: every ExtendedPrivateKey obtained through from_seed, derive_child,
\* derive_hardened or derive_path holds a private key in [1, n); from_seed
\* rejects a seed shorter than 16 or longer than 64 bytes with
\* InvalidSeedLength and fails when I[0:32] is 0 or >= n.
C20_KeysInRange ==
  /\ s_pc \in { "key", "failed" } =>
       /\ s_out.ext # None => s_out.ext[1].key \in 1 .. (CurveOrder - 1)
       /\ Bip32Last.result[1] = "Ok" =>
            Bip32Last.result[2].key \in 1 .. (CurveOrder - 1)
  /\ (s_pc \in { "key", "failed" } /\ Bip32Last.op = "from_seed") =>
       LET seed == Bip32Last.arg
           I == hmac_sha512(BitcoinSeed, << seed.len, seed.value >>)
       IN  /\ (seed.len < 16 \/ seed.len > 64) =>
                Bip32Last.result = << "Err", "InvalidSeedLength" >>
           /\ (seed.len \in 16 .. 64 /\ (I.il = 0 \/ I.il >= CurveOrder)) =>
                Bip32Last.result[1] = "Err"
           /\ (seed.len \in 16 .. 64 /\ I.il \in 1 .. (CurveOrder - 1)) =>
                Bip32Last.result = << "Ok", ExtendedPrivateKey(I.il, I.ir) >>

C20_Witness ==
  /\ s_pc = "key"
  /\ Bip32Last.op = "derive_path"
  /\ Len(Bip32Last.arg) = 2
  /\ Bip32Last.result[1] = "Ok"
  /\ Bip32Last.result[2].key # Bip32Last.ext[1].key

\* ---------------------------------------------------------------------
\* Claims about BIP39 mnemonics
\* ---------------------------------------------------------------------

\* C21: for an entropy of 16, 20, 24, 28 or 32 bytes entropy_to_mnemonic
\* succeeds with 12, 15, 18, 21 or 24 words and validate_mnemonic of the
\* result is true; the words hold the entropy again; every other entropy
\* length is rejected with an error.
C21_MnemonicRoundTrip ==
  /\ s_pc \in { "mnemonic", "validated" } =>
       IF Len(s_in.entropy) \in { 16, 20, 24, 28, 32 }
         THEN /\ s_out.mnemonic[1] = "Ok"
              /\ Len(s_out.mnemonic[2]) = (Len(s_in.entropy) * 3) \div 4
              /\ BytesOfBits(IndexBits11([ k \in DOMAIN s_out.mnemonic[2] |->
                                             s_out.mnemonic[2][k][2] ]),
                             Len(s_in.entropy)) = s_in.entropy
         ELSE s_out.mnemonic[1] = "Err"
  /\ s_pc = "validated" => s_out.valid = << TRUE >>

C21_Witness ==
  /\ s_pc = "validated"
  /\ Len(s_in.entropy) = 20
  /\ s_in.entropy[1] = 255
  /\ Len(s_out.mnemonic[2]) = 15
  /\ s_out.valid = << TRUE >>

\* ---------------------------------------------------------------------
\* Claims about Base58
\* ---------------------------------------------------------------------

\* C22: for every address payload (leading zero bytes included), every
\* prefix and both settings of ignore_case, the device prefix check is true
\* exactly when the full Base58 encoding made by the host encoder starts
\* with the prefix, both sides lowercased when ignore_case.
C22_FastAgreesWithEncode ==
  s_pc = "checked" =>
    (s_out.fast <=>
       starts_with(IF s_in.ignore_case THEN to_lowercase(s_out.address)
                   ELSE s_out.address,
                   IF s_in.ignore_case THEN to_lowercase(s_in.prefix)
                   ELSE s_in.prefix))

C22_Witness ==
  /\ s_pc = "checked"
  /\ s_in.payload[1] = 0
  /\ s_in.payload[2] # 0
  /\ s_in.ignore_case
  /\ s_in.prefix = << "1", "a" >>
  /\ s_out.fast
  /\ s_out.address[2] = "A"

\* ---------------------------------------------------------------------
\* Claims about the Debug formatting of GeneratedAddress
\* ---------------------------------------------------------------------

\* C23 as stated: two values with the same address have the same Debug
\* output, and the output never contains a word of the mnemonic or the
\* bytes of the private key.
C23_DebugNeverContainsSecrets ==
  s_pc = "formatted" =>
    /\ s_in.a.address = s_in.b.address => s_out.a = s_out.b
    /\ \A k \in DOMAIN s_in.a.mnemonic : ~contains(s_out.a, s_in.a.mnemonic[k])
    /\ ~contains(s_out.a, s_in.a.private_key)

\* C23 amended: two values with the same address have the same Debug
\* output, and a word of the mnemonic or the bytes of the private key occur
\* in the output only where they occur in the address or in the fixed text
\* around it.
C23_DebugDependsOnAddress ==
  s_pc = "formatted" =>
    /\ s_in.a.address = s_in.b.address => s_out.a = s_out.b
    /\ \A k \in DOMAIN s_in.a.mnemonic :
         contains(s_out.a, s_in.a.mnemonic[k]) =>
           \/ contains(s_in.a.address, s_in.a.mnemonic[k])
           \/ contains(DebugHead, s_in.a.mnemonic[k])
           \/ contains(DebugTail, s_in.a.mnemonic[k])
    /\ contains(s_out.a, s_in.a.private_key) =>
         \/ contains(s_in.a.address, s_in.a.private_key)
         \/ contains(DebugHead, s_in.a.private_key)
         \/ contains(DebugTail, s_in.a.private_key)

C23_Witness ==
  /\ s_pc = "formatted"
  /\ s_in.a.address = s_in.b.address
  /\ s_in.a.mnemonic # s_in.b.mnemonic
  /\ s_in.a.private_key # s_in.b.private_key
  /\ s_out.a = s_out.b
  /\ \A k \in DOMAIN s_in.a.mnemonic : ~contains(s_out.a, s_in.a.mnemonic[k])


(***************************************************************************)
(* C24: the hit buffer append of one batch under every interleaving        *)
(***************************************************************************)
\* The hits of the running batch, per work-item, and their number k.
BatchHitsOf(g) == WorkItemHits(p_salt, p_arg1, g)

RECURSIVE SumLens(_)
SumLens(G) ==
  IF G = {} THEN 0
  ELSE LET g == CHOOSE h \in G : TRUE
       IN Len(BatchHitsOf(g)) + SumLens(G \ {g})

BatchHitTotal == SumLens(WorkItems)

\* Every (work-item, position) of a history field of the work-items.
HistoryEntries(field) ==
  { e \in WorkItems \X (1 .. (NumIndices * NumPatterns)) :
      e[2] <= Len(IF field = "got" THEN p_wi[e[1]].got ELSE p_wi[e[1]].wrote) }

HistoryAt(field, e) ==
  IF field = "got" THEN p_wi[e[1]].got[e[2]] ELSE p_wi[e[1]].wrote[e[2]]

HistoryDistinct(field) ==
  \A e, f \in HistoryEntries(field) :
    e # f => HistoryAt(field, e) # HistoryAt(field, f)

\* The hit whose record work-item g stored with its i-th write.
\* (the position in got of the index of its i-th store, scanning from n)
RECURSIVE WriteOrdinal(_, _, _)
WriteOrdinal(g, i, n) ==
  IF p_wi[g].got[n] = p_wi[g].wrote[i] THEN n ELSE WriteOrdinal(g, i, n + 1)

WrittenBy(s) ==
  { e \in HistoryEntries("wrote") : HistoryAt("wrote", e) = s }

\* C24: while a batch runs, the indices the work-items obtained from
\* atomic_inc(hit_count) are pairwise distinct, no slot was stored to twice,
\* every store went to a slot of the buffer below max_hits, and once all k
\* hits are appended hit_count = k (also when k > max_hits) and each slot
\* 0 .. min(k, max_hits) - 1 holds the whole record of the one hit whose
\* atomic_inc returned that index.
C24_HitAppend ==
  p_pc = "kernel" =>
    /\ HistoryDistinct("got")
    /\ HistoryDistinct("wrote")
    /\ \A e \in HistoryEntries("wrote") :
         /\ HistoryAt("wrote", e) < max_hits
         /\ HistoryAt("wrote", e) \in DOMAIN p_hits
    /\ KernelFinished =>
         /\ p_hit_count = BatchHitTotal
         /\ \A s \in 0 .. (Min(BatchHitTotal, max_hits) - 1) :
              /\ s \in DOMAIN p_hits
              /\ Cardinality(WrittenBy(s)) = 1
              /\ LET e == CHOOSE f \in WrittenBy(s) : TRUE
                     g == e[1]
                 IN p_hits[s] = BatchHitsOf(g)[WriteOrdinal(g, e[2], 1)]

\* A finished batch with more hits than slots: two work-items stored
\* records and one of them also obtained an index beyond the buffer.
C24_Witness ==
  /\ p_pc = "kernel"
  /\ KernelFinished
  /\ BatchHitTotal > max_hits
  /\ p_hit_count = BatchHitTotal
  /\ \E g, h \in WorkItems :
       /\ g # h
       /\ p_wi[g].wrote # << >>
       /\ p_wi[h].wrote # << >>
       /\ Len(p_wi[h].got) > Len(p_wi[h].wrote)


(***************************************************************************)
(* C25: hit_count is reset before each kernel execution                    *)
(***************************************************************************)
\* The records the last successful run_batch read from the device (the
\* device buffers are not touched between its return and the next call).
LastHitsRead ==
  IF Min(p_hit_count, MAX_HITS) = 0 THEN << >>
  ELSE read_hits(BufferSeq, Min(p_hit_count, MAX_HITS))

ReturnedOk == p_pc = "idle" /\ p_ret # None /\ p_ret[1] = "Ok"

\* A slot that holds a record of an earlier batch.
StaleSlot(s) == p_hits[s] # Unwritten /\ WrittenBy(s) = {}

\* C25: hit_count is zero when the kernel of a batch starts running, so
\* the raw count read after the batch is the number of hits of that batch,
\* and every record read, and so every result returned, was stored by a
\* work-item of that batch: no slot left over from an earlier batch is read.
C25_FreshHits ==
  /\ (p_pc = "kernel" /\ \A g \in WorkItems : p_wi[g].got = << >>)
       => p_hit_count = 0
  /\ ReturnedOk =>
       /\ p_reads[Len(p_reads)].raw = BatchHitTotal
       /\ p_reads[Len(p_reads)].read = Len(LastHitsRead)
       /\ \A j \in DOMAIN LastHitsRead :
            /\ ~StaleSlot(j - 1)
            /\ \E g \in WorkItems :
                 \E n \in DOMAIN BatchHitsOf(g) :
                   LastHitsRead[j] = BatchHitsOf(g)[n]
       /\ \A n \in DOMAIN p_ret[2] :
            \E j \in DOMAIN LastHitsRead :
              p_ret[2][n] = VanityResult(LastHitsRead[j])

\* A later batch returned its one hit while a slot of the buffer still held
\* the record of an earlier batch.
C25_Witness ==
  /\ ReturnedOk
  /\ p_batches >= 2
  /\ BatchHitTotal = 1
  /\ Len(p_ret[2]) = 1
  /\ \E s \in DOMAIN p_hits : StaleSlot(s)


(***************************************************************************)
(* C26: field and scalar operations return the canonical result            *)
(***************************************************************************)
\* (a * b) mod m for a, b < 2^16, without leaving 32 bits
MulMod(a, b, m) ==
  ((a % 256) * b + ((((a \div 256) * b) % m) * 256)) % m

RECURSIVE PowMod(_, _, _)
PowMod(a, e, m) ==
  IF e = 0 THEN 1 % m
  ELSE LET h == PowMod(a, e \div 2, m)
           hh == MulMod(h, h, m)
       IN IF e % 2 = 1 THEN MulMod(hh, a % m, m) ELSE hh

Canonical(r, m) ==
  /\ \A i \in LimbIdx : r[i] \in 0 .. (LimbBase - 1)
  /\ LimbValue(r) < m

\* The mathematical result of the operation just applied, modulo m.
Expected(m) ==
  CASE s_out.op = "add"    -> (s_in.a + s_in.b) % m
    [] s_out.op = "sub"    -> (s_in.a + m - s_in.b) % m
    [] s_out.op = "neg"    -> (m - s_in.a) % m
    [] s_out.op = "mul"    -> MulMod(s_in.a, s_in.b, m)
    [] s_out.op = "square" -> MulMod(s_in.a, s_in.a, m)
    [] s_out.op = "pow"    -> PowMod(s_in.a, s_in.exp, m)

ReturnsExpected(m) ==
  /\ s_out.r # None
  /\ Canonical(s_out.r[1], m)
  /\ LimbValue(s_out.r[1]) = Expected(m)

ReturnsInverse ==
  /\ s_out.r # None
  /\ Canonical(s_out.r[1], FieldPrime)
  /\ MulMod(LimbValue(s_out.r[1]), s_in.a, FieldPrime) = 1

\* C26 as stated: every operation, inv included, returns a canonical value
\* equal to the mathematical result for every canonical input.
C26_AlwaysCanonicalValue ==
  /\ (s_pc = "field" /\ s_out.op # "inv") => ReturnsExpected(FieldPrime)
  /\ (s_pc = "field" /\ s_out.op = "inv") => ReturnsInverse
  /\ s_pc = "scalar" => ReturnsExpected(CurveOrderN)

\* C26: for canonical operands, add, sub, neg, mul, square and pow of the
\* field and add, sub, neg, mul and square of the scalars return the
\* canonical representative of the mathematical result; inv returns the
\* canonical inverse of a non-zero operand and None for zero.
C26_CanonicalResults ==
  /\ (s_pc = "field" /\ s_out.op # "inv") => ReturnsExpected(FieldPrime)
  /\ (s_pc = "field" /\ s_out.op = "inv") =>
       IF s_in.a = 0 THEN s_out.r = None ELSE ReturnsInverse
  /\ s_pc = "scalar" => ReturnsExpected(CurveOrderN)

\* An addition whose limb sum carries out of the top limb.
C26_Witness ==
  /\ s_pc = "field"
  /\ s_out.op = "add"
  /\ s_in.a + s_in.b >= LimbBase * LimbBase * LimbBase * LimbBase
  /\ LimbValue(s_out.r[1]) = s_in.a + s_in.b - FieldPrime


(***************************************************************************)
(* C27: the stop flag is monotonic                                         *)
(***************************************************************************)
\* A worker that has left its loop: it loaded stop = true (or used up its
\* batches, or failed) and is about to send, or has sent, its Stats.
LeftLoop(w) == wpc[w] \in {"stats", "done"}

\* C27: no step of a worker, of the coordinator or of the deadline thread
\* takes stop from true to false; a worker whose loop-head load returned
\* true leaves the loop and never comes back to it, and a worker reaches
\* the fetch_add that claims a window only by a loop-head load that
\* returned false.
C27_StopMonotonic ==
  [][ /\ stop => stop'
      /\ \A w \in Devices :
           /\ (wpc[w] = "check" /\ stop /\ wpc'[w] # wpc[w]) => LeftLoop(w)'
           /\ LeftLoop(w) => LeftLoop(w)'
           /\ (wpc'[w] = "claim" /\ wpc[w] # "claim")
                => (wpc[w] = "check" /\ ~stop) ]_vars

\* The deadline thread and the coordinator have both stored true, one
\* worker has seen the flag and left its loop while another, which loaded
\* false earlier, is still running the batch it claimed after the store.
C27_Witness ==
  /\ stop
  /\ dpc = "done"
  /\ results_found >= max_results
  /\ \E w, v \in Devices :
       /\ wpc[w] = "stats"
       /\ wpc[v] = "batch"
       /\ claimsAfterStop[v] = 1


(***************************************************************************)
(* C28: derive_path is compositional                                       *)
(***************************************************************************)
\* Deriving along p and then, from the key obtained, along q.
TwoStages(k, p, q) ==
  LET first == derive_path(k, p)
  IN  IF first[1] = "Err" THEN first ELSE derive_path(first[2], q)

\* m/44'/429'/account'
ErgoParentPath(account) ==
  << HardenedIndex(PURPOSE), HardenedIndex(ERGO_COIN_TYPE),
     HardenedIndex(account) >>

\* C28: the result of derive_path on an index list is, for every split of
\* the list into p ++ q, the result of deriving along p and then along q
\* (an error of either stage being the error of the whole call), the empty
\* list gives the key itself, and derive_ergo_key(master, account, change,
\* i) is the result of deriving m/44'/429'/account' and then [change, i].
C28_DerivePathComposes ==
  s_out.last # None =>
    LET call == s_out.last[1]
    IN  /\ call.op = "derive_path" =>
             /\ \A n \in 0 .. Len(call.arg) :
                  call.result =
                    TwoStages(call.ext[1], SubSeq(call.arg, 1, n),
                              SubSeq(call.arg, n + 1, Len(call.arg)))
             /\ call.arg = << >> => call.result = << "Ok", call.ext[1] >>
        /\ call.op = "derive_ergo_key" =>
             call.result =
               TwoStages(call.ext[1], ErgoParentPath(call.arg[1]),
                         << call.arg[2], call.arg[3] >>)

\* derive_ergo_key(master, 0, 0, i) succeeded with a key that is not the
\* master's.
C28_Witness ==
  /\ s_out.last # None
  /\ s_out.last[1].result[1] = "Ok"
  /\ s_out.last[1].op = "derive_ergo_key"
  /\ s_out.last[1].arg[1] = 0
  /\ s_out.last[1].arg[2] = 0
  /\ s_out.last[1].result[2] # s_out.last[1].ext[1]
  /\ derive_path(s_out.last[1].ext[1], ErgoParentPath(0))[1] = "Ok"


(***************************************************************************)
(* C29: validating a normalized pattern again                              *)
(***************************************************************************)
\* 'L' is the one Base58 letter whose lower case form ('l') is not a Base58
\* character.
HasUpperL(pattern) == \E k \in DOMAIN pattern : pattern[k] = "L"

\* C29 as stated: a pattern returned by validate_pattern is accepted, and
\* returned unchanged, by validate_pattern under the same flag.
C29_AlwaysIdempotent ==
  s_pc = "revalidated" => s_out.second = s_out.first

\* C29 (amended): a pattern returned by validate_pattern is accepted and
\* returned unchanged by a second call under the same flag, unless
\* ignore_case is set and the original pattern contains 'L': the normalized
\* pattern then contains 'l' and the second call fails with the invalid
\* Base58 character error.
C29_IdempotentExceptL ==
  s_pc = "revalidated" =>
    IF s_in.ignore_case /\ HasUpperL(s_in.pattern)
      THEN s_out.second = << "Err", "invalid Base58" >>
      ELSE s_out.second = s_out.first

\* "9EE" was normalized to "9ee" under ignore_case, and "9ee" was accepted
\* unchanged.
C29_Witness ==
  /\ s_pc = "revalidated"
  /\ s_in.ignore_case
  /\ s_in.pattern = << "9", "E", "E" >>
  /\ s_out.first = << "Ok", << "9", "e", "e" >> >>
  /\ s_out.second = s_out.first


(***************************************************************************)
(* C30: the counter of one pipeline                                        *)
(***************************************************************************)
\* The candidates of the window that starts at c.
WindowOf(c) == { (c + g) % Modulus : g \in WorkItems }

\* A call of run_batch gets its kernel enqueued.
RunBatchStarts == p_pc = "idle" /\ p_pc' = "kernel" /\ p_entry' = "run_batch"

\* A call of run_batch ends after queue.finish() returned Ok: it went on to
\* the updates of lines 202-203.
RunBatchFinished ==
  /\ p_pc = "kernel"
  /\ p_pc' = "idle"
  /\ p_entry = "run_batch"
  /\ p_addresses_checked' # p_addresses_checked

\* C30 as stated: every run_batch that follows a run_batch uses the next
\* window (0, B, 2B, ...), so no two batches are given the same window.
C30_SuccessiveStartsAdvance ==
  [][ (RunBatchStarts /\ p_entry = "run_batch")
        => p_arg1' = (p_arg1 + BatchSize) % Modulus ]_vars

\* C30 (amended): run_batch hands the kernel counter_start = counter; the
\* counter changes only when a kernel execution of run_batch has finished,
\* and then by exactly batch_size modulo 2^64, also when a later step of the
\* call fails; it stays when reset_hits, set_arg, enq or finish fails, so
\* the next call starts at the same window again.  The windows of the
\* batches whose kernel execution finished are 0, B, 2B, ... and are
\* pairwise disjoint until the counter wraps.
C30_CounterAdvance ==
  /\ [](p_pc # "off" =>
          /\ p_counter = (Len(p_windows) * BatchSize) % Modulus
          /\ \A i \in DOMAIN p_windows :
               p_windows[i] = ((i - 1) * BatchSize) % Modulus
          /\ \A i, j \in DOMAIN p_windows :
               (i < j /\ j <= Modulus \div BatchSize)
                 => WindowOf(p_windows[i]) \cap WindowOf(p_windows[j]) = {})
  /\ [][ /\ RunBatchStarts => p_arg1' = p_counter
         /\ p_counter' # p_counter =>
              /\ RunBatchFinished
              /\ KernelFinished
         /\ RunBatchFinished =>
              /\ p_counter' = (p_counter + BatchSize) % Modulus
              /\ p_windows' = Append(p_windows, p_arg1)
         /\ (p_pc' = "idle" /\ p_addresses_checked' = p_addresses_checked)
              => p_counter' = p_counter ]_vars

\* The counter has wrapped to 0 with the batch on the last window before
\* the wrap, in a call that failed after its kernel execution had finished.
C30_Witness ==
  /\ p_pc = "idle"
  /\ p_windows # << >>
  /\ p_counter = 0
  /\ p_windows[Len(p_windows)] = Modulus - BatchSize
  /\ p_batches >= 2
  /\ p_ret = << "Err" >>

=============================================================================
